---- MODULE Spec2Model ----
(***************************************************************************)
(* Weather Insight analytics engine: anomaly detection (z-score), trend    *)
(* analysis (linear regression with a 7-day forecast) and pattern          *)
(* clustering (K-Means on standardized features); and the browser client:  *)
(* the weather and forecast cache of the useCachedWeather hooks, the guest *)
(* list of favourite cities in localStorage, and the accounts of the       *)
(* AuthContext with the migration of the guest list at registration.       *)
(*                                                                         *)
(* Each part has its own specification over the same variables: Spec (the  *)
(* engine), SpecCache, SpecGuest, SpecGuestLimit and SpecAuth.             *)
(*                                                                         *)
(* Numbers.  The program computes in double precision; the model computes  *)
(* the same quantities exactly, over the integers:                         *)
(*   - a temperature is an integer number of hundredths of a degree;       *)
(*   - a rational is a record [num, den] with den > 0;                     *)
(*   - a standard deviation is kept as its radicand (the square root is    *)
(*     never taken), so every comparison against a threshold is exact.     *)
(***************************************************************************)
EXTENDS Integers, Sequences, FiniteSets, TLC

VARIABLES
    observations,   \* the window handed to the analyzer
    injectedAt,     \* index of the observation injected at mean + 4 stddev, or 0
    call,           \* the analyzer the caller invokes
    pc,             \* position of the call
    status,         \* "none", "ok" or the error raised
    anomalies,      \* result of detectAnomalies
    fpInvalid,      \* numpy flagged an invalid floating-point operation (0 / 0)
    trend,          \* result of analyzeTrend
    km,             \* state of the K-Means run
    seeded,         \* what the generator seeded with random_state draws
    entropy,        \* what an unseeded generator would draw in this run
    patterns,       \* result of clusterPatterns
    previous,       \* result of the previous run on the same input
    runs,           \* number of clusterPatterns runs started
    label,          \* result of a direct use of the pattern rule table
    weatherCache,   \* useCachedWeather.js: Map cityName -> {data, timestamp}
    forecastCache,  \* useCachedWeather.js: Map cityName -> {data, timestamp}
    inflightRequests, \* useCachedWeather.js: Map key -> pending promise
    requests,       \* number of weatherAPI calls issued so far, by key of the hook in use
    hooks,          \* the hook instances: React state and mountedRef
    loads,          \* the loadWeather / loadForecast closures at their await
    now,            \* Date.now(), in milliseconds since the page was opened
    ticks,          \* number of clock steps taken
    localStorage,   \* window.localStorage: Map key -> string
    clock,          \* Date.now() of the guest pages, as days and milliseconds
    favorites,      \* Dashboard: the favourites it shows
    insights,       \* ML Insights: the favourites it shows
    expired,        \* what checkAndClearExpiredGuestData returned last
    nextCity,       \* number of cities the search has offered so far
    catalogue,      \* number of cities the search can offer
    user,           \* AuthContext: the user state
    authError,      \* AuthContext: the error state
    authLoading,    \* AuthContext: the loading state
    page,           \* where the auth flow of the page stands
    authCall,       \* the login or register call made last
    result,         \* what that call returned
    migration,      \* Register: the migration task of each guest city
    accounts,       \* server: the usernames that have an account
    dbFavorites,    \* server: the <<username, city id>> favourites
    request,        \* converter: the request handled last
    response,       \* converter: the response to it
    removals,       \* Dashboard of a signed-in user: the removeFavorite calls pending
    removed,        \* the city ids whose removeFavorite call has returned
    location,       \* window.location.pathname
    failure,        \* API client: the failed response handled last, and the page then
    rejection,      \* API client: the error the caller's promise was rejected with
    modal,          \* ProfileEditModal: its user prop and its React state
    profileCall     \* the updateData of the authAPI.updateProfile call pending

inputVars == <<observations, injectedAt, call, seeded>>
anomalyVars == <<anomalies, fpInvalid>>
clusterVars == <<km, entropy, patterns, previous, runs>>

engineVars == <<observations, injectedAt, call, pc, status, anomalies, fpInvalid,
                trend, km, seeded, entropy, patterns, previous, runs, label>>
cacheVars == <<weatherCache, forecastCache, inflightRequests, requests, hooks,
               loads, now, ticks>>
guestVars == <<localStorage, clock, favorites, insights, expired, nextCity, catalogue>>
authVars == <<user, authError, authLoading, page, authCall, result, migration,
              accounts, dbFavorites>>
converterVars == <<request, response>>
removalVars == <<removals, removed>>
interceptorVars == <<location, failure, rejection>>
profileVars == <<modal, profileCall>>
pageVars == <<converterVars, removalVars, interceptorVars, profileVars>>
clientVars == <<cacheVars, guestVars, authVars, pageVars>>

vars == <<engineVars, clientVars>>

(***************************************************************************)
(* Bounds of the checked inputs.                                           *)
(***************************************************************************)
MaxWindow == 13
MaxBase == 26
MaxTrendWindow == 31
MaxSlope == 2
MaxInvalid == 2
MaxRuns == 2
MaxHooks == 2
MaxRequests == 2
MaxTicks == 2
MaxCities == 3
MaxPauses == 1
MaxFavorites == 3
MaxCalls == 4

(***************************************************************************)
(* Arithmetic helpers.                                                     *)
(***************************************************************************)
Abs(x) == IF x < 0 THEN -x ELSE x

\* The sum of s[lo..hi], by halves.
RECURSIVE SumRange(_, _, _)
SumRange(s, lo, hi) ==
    IF lo > hi THEN 0
    ELSE IF lo = hi THEN s[lo]
    ELSE LET mid == (lo + hi) \div 2
         IN  SumRange(s, lo, mid) + SumRange(s, mid + 1, hi)

SeqSum(s) == SumRange(s, 1, Len(s))

Squares(s) == [i \in 1..Len(s) |-> s[i] * s[i]]

RECURSIVE GCD(_, _)
GCD(a, b) == IF b = 0 THEN Abs(a) ELSE GCD(b, a % b)

LCM(a, b) == (a \div GCD(a, b)) * b

\* The largest r in lo..hi with r * r <= x (bisection).
RECURSIVE SqrtBetween(_, _, _)
SqrtBetween(x, lo, hi) ==
    IF lo >= hi THEN lo
    ELSE LET mid == (lo + hi + 1) \div 2
         IN  IF mid * mid <= x THEN SqrtBetween(x, mid, hi)
             ELSE SqrtBetween(x, lo, mid - 1)

\* The integer square root (of values below 2^31).
Sqrt(x) == SqrtBetween(x, 0, 46340)

IsSquare(x) == Sqrt(x) * Sqrt(x) = x

(***************************************************************************)
(* Observations.  The timestamp of an observation is its index in the      *)
(* window (ascending, unique).  missing is the set of fields the           *)
(* observation lacks.                                                      *)
(***************************************************************************)
Obs(t, h, p) == [temperature |-> t, humidity |-> h, pressure |-> p, missing |-> {}]

TempObs(t) == Obs(t, 50, 1013)

Temperatures(data) == [i \in 1..Len(data) |-> data[i].temperature]

(***************************************************************************)
(* Anomaly detection (z-score method).                                     *)
(***************************************************************************)
MinAnomalyObservations == 10

\* The check with the minimum itself rejected.
InsufficientDataInclusive(count, minimum) == count <= minimum

\* The minimum-data precondition of an analyzer.
InsufficientData(count, minimum) == count < minimum

\* Thresholds 1.5, 2.0 and 3.0, in halves.
ThresholdDen == 2
ThresholdLow == 3
ThresholdMedium == 4
ThresholdHigh == 6

\* np.mean: sum / n.
np_mean(values) == [num |-> SeqSum(values), den |-> Len(values)]

\* The sample form (ddof = 1): the variance over n - 1.
np_std_sample(values) ==
    LET n == Len(values)
        d == [i \in 1..n |-> values[i] - values[1]]
        S == SeqSum(d)
        Q == SeqSum(Squares(d))
    IN  [num |-> n * Q - S * S, den |-> n * (n - 1)]

\* np.std, population form (ddof = 0).  The record [num, den] is the
\* variance num / den = (n * sum(x^2) - (sum x)^2) / n^2; the standard
\* deviation is its square root.  The sums are taken over the deviations
\* from the first value, which leaves the variance unchanged.
np_std(values) ==
    LET n == Len(values)
        d == [i \in 1..n |-> values[i] - values[1]]
        S == SeqSum(d)
        Q == SeqSum(Squares(d))
    IN  [num |-> n * Q - S * S, den |-> n * n]

\* (value - mean) / std_dev.  With mean = S/n and std_dev = sqrt(num/den),
\* z = (n * value - S) * sqrt(den / (n^2 * num)).  The record [num, mul, div]
\* stands for num * sqrt(mul / div), den / n^2 reduced to lowest terms.
\* With div = 0 (std_dev = 0) the division is 0 / 0, every value being the
\* mean: numpy gives NaN and flags an invalid operation.
z_score(value, mean, std_dev) ==
    LET nn == mean.den * mean.den
        g  == GCD(std_dev.den, nn)
    IN  [num |-> mean.den * value - mean.num,
         mul |-> std_dev.den \div g,
         div |-> (nn \div g) * std_dev.num]

IsNaN(z) == z.div = 0 /\ z.num = 0

\* abs(z) >= t / ThresholdDen: the thresholds closed on the lower bound.
AbsGreaterOrEqual(z, t) ==
    ThresholdDen * ThresholdDen * z.num * z.num * z.mul >= t * t * z.div

\* abs(z) > t / ThresholdDen, exactly.  Any comparison with NaN is false.
AbsGreater(z, t) ==
    ThresholdDen * ThresholdDen * z.num * z.num * z.mul > t * t * z.div

\* Severity table: |z| > 3.0 High, 2.0 < |z| <= 3.0 Medium,
\* 1.5 < |z| <= 2.0 Low.  Called only for |z| > 1.5.
classify_severity(z) ==
    IF AbsGreater(z, ThresholdHigh) THEN "High"
    ELSE IF AbsGreater(z, ThresholdMedium) THEN "Medium"
    ELSE "Low"

\* The z-score of every value of the window (step 3 of detect_anomalies).
z_scores(temperatures) ==
    LET mean    == np_mean(temperatures)
        std_dev == np_std(temperatures)
    IN  [i \in 1..Len(temperatures) |-> z_score(temperatures[i], mean, std_dev)]

\* detect_anomalies: one record per value with abs(z) > 1.5, in window order.
detect_anomalies(data) ==
    LET temperatures == Temperatures(data)
        zs == z_scores(temperatures)
        all == [i \in 1..Len(data) |->
                  [date |-> i,
                   value |-> temperatures[i],
                   expected |-> np_mean(temperatures),
                   z_score |-> zs[i],
                   severity |-> classify_severity(zs[i])]]
    IN  SelectSeq(all, LAMBDA a : AbsGreater(a.z_score, ThresholdLow))

(***************************************************************************)
(* Rationals.                                                              *)
(***************************************************************************)
\* a < b for rationals with positive denominators, by comparing the integer
\* parts and then the reciprocals of the fractional parts (no products, so
\* no intermediate value exceeds the operands).
RECURSIVE RatLess(_, _)
RatLess(a, b) ==
    LET qa == a.num \div a.den
        qb == b.num \div b.den
        ra == a.num % a.den
        rb == b.num % b.den
    IN  IF qa # qb THEN qa < qb
        ELSE IF rb = 0 THEN FALSE
        ELSE IF ra = 0 THEN TRUE
        ELSE RatLess([num |-> b.den, den |-> rb], [num |-> a.den, den |-> ra])

RatNeg(a) == [num |-> -a.num, den |-> a.den]

(***************************************************************************)
(* Trend analysis (linear regression).                                     *)
(***************************************************************************)
MinTrendObservations == 30

ForecastDays == 7

\* 1.96, in hundredths.
MarginZ == 196
MarginDen == 100

\* Temperatures are in hundredths of a degree.
TempScale == 100

\* Day indices 0 .. n-1.
DayIndices(data) == [i \in 1..Len(data) |-> i - 1]

\* LinearRegression().fit(X, y) for X = 0 .. n-1.  The fit centres the
\* data: with u = 2 * x - (n - 1) (twice the centred index),
\*   Suu = sum u^2, Suy = sum u * y, Sy = sum y, Syy = n * sum y^2 - Sy^2.
fit(X, y) ==
    LET n == Len(y)
        U == [i \in 1..n |-> 2 * X[i] - (n - 1)]
    IN  [n   |-> n,
         Suu |-> SeqSum(Squares(U)),
         Suy |-> SeqSum([i \in 1..n |-> U[i] * y[i]]),
         Sy  |-> SeqSum(y),
         Syy |-> n * SeqSum(Squares(y)) - SeqSum(y) * SeqSum(y)]

\* model.coef_[0] = 2 * Suy / Suu, over the denominator n * Suu.
coef(model) == [num |-> 2 * model.n * model.Suy, den |-> model.n * model.Suu]

\* model.intercept_ = mean(y) - coef * mean(x), over the same denominator.
intercept(model) ==
    [num |-> model.Sy * model.Suu - model.n * (model.n - 1) * model.Suy,
     den |-> model.n * model.Suu]

\* model.predict(x) = coef * x + intercept.
predict(model, x) ==
    [num |-> coef(model).num * x + intercept(model).num,
     den |-> model.n * model.Suu]

\* model.score(X, y) = 1 - SS_residual / SS_total, which for a least-squares
\* line is SS_regression / SS_total = n * Suy^2 / (Suu * Syy).  r2_score
\* gives 1.0 when SS_total = 0 and the fit is perfect (a constant series).
score(model) ==
    LET g == GCD(model.Suy, model.Suu)
        p == model.Suy \div g
        q == model.Suu \div g
    IN  IF model.Syy = 0 THEN [num |-> 1, den |-> 1]
        ELSE [num |-> model.n * model.Suy * p, den |-> q * model.Syy]

\* np.std(y - model.predict(X)), population form, as the variance
\* SS_residual / n = (Syy / n - Suy^2 / Suu) / n whose square root it is.
residual_std(model) ==
    LET g == GCD(model.Suy, model.Suu)
        p == model.Suy \div g
        q == model.Suu \div g
    IN  [num |-> model.Syy * q - model.n * model.Suy * p,
         den |-> model.n * model.n * q]

\* range(len(data) + 1, len(data) + 8): the forecast one day late.
future_X_shifted(n) == [d \in 1..ForecastDays |-> n + d]

\* range(len(data), len(data) + 7).
future_X(n) == [d \in 1..ForecastDays |-> n - 1 + d]

\* predictions +/- margin, margin = 1.96 * std_error: the record [base, k]
\* stands for base + (k / MarginDen) * std_error.
Bound(prediction, k) == [base |-> prediction, k |-> k]

analyze_trends(data) ==
    LET X == DayIndices(data)
        y == Temperatures(data)
        model == fit(X, y)
        predictions == [d \in 1..ForecastDays |-> predict(model, future_X(Len(data))[d])]
    IN  [slope |-> coef(model),
         intercept |-> intercept(model),
         r_squared |-> score(model),
         predictions |-> predictions,
         std_error |-> residual_std(model),
         confidence_intervals |->
            [upper |-> [d \in 1..ForecastDays |-> Bound(predictions[d], MarginZ)],
             lower |-> [d \in 1..ForecastDays |-> Bound(predictions[d], -MarginZ)]]]

\* Thresholds of the classification rules.
SlopeThreshold == [num |-> 1, den |-> 100]
HighConfidence == [num |-> 7, den |-> 10]
MediumConfidence == [num |-> 4, den |-> 10]

\* A slope in hundredths of a degree per day, in degrees per day.
InDegrees(r) == [num |-> r.num, den |-> r.den * TempScale]

\* The comparisons written >= 0.01 and <= -0.01.
trend_direction_inclusive(slope) ==
    IF ~RatLess(slope, SlopeThreshold) THEN "increasing"
    ELSE IF ~RatLess(RatNeg(SlopeThreshold), slope) THEN "decreasing"
    ELSE "stable"

\* if slope > 0.01 ... elif slope < -0.01 ... else.
trend_direction(slope) ==
    IF RatLess(SlopeThreshold, slope) THEN "increasing"
    ELSE IF RatLess(slope, RatNeg(SlopeThreshold)) THEN "decreasing"
    ELSE "stable"

\* The comparisons written >= 0.7 and >= 0.4.
confidence_level_inclusive(r_squared) ==
    IF ~RatLess(r_squared, HighConfidence) THEN "high"
    ELSE IF ~RatLess(r_squared, MediumConfidence) THEN "medium"
    ELSE "low"

\* R^2 > 0.7 high, 0.4 < R^2 <= 0.7 medium, R^2 <= 0.4 low.
confidence_level(r_squared) ==
    IF RatLess(HighConfidence, r_squared) THEN "high"
    ELSE IF RatLess(MediumConfidence, r_squared) THEN "medium"
    ELSE "low"

NoTrend == [direction |-> "none"]

(***************************************************************************)
(* Pattern clustering (K-Means on standardized features).                  *)
(***************************************************************************)
MinClusterObservations == 30

MinClusters == 2
MaxClusters == 6

\* KMeans(n_clusters = n_clusters, random_state = 42).
RandomState == 42

\* 1 / tolerance^2 for tolerance = 1e-4.
ToleranceInvSq == 100000000

DefaultMaxIterations == 100

FeatureNames == <<"temperature", "humidity", "pressure">>

Cols == 1..3

\* Observations that carry temperature, humidity and pressure.
ValidObservations(data) == SelectSeq(data, LAMBDA o : o.missing = {})

\* [[d['temperature'], d['humidity'], d['pressure']] for d in data].
Features(data) ==
    [i \in 1..Len(data) |-> <<data[i].temperature, data[i].humidity, data[i].pressure>>]

Column(features, c) == [i \in 1..Len(features) |-> features[i][c]]

\* The greatest common divisor of s[lo..hi], by halves.
RECURSIVE GCDRange(_, _, _)
GCDRange(s, lo, hi) ==
    IF lo > hi THEN 0
    ELSE IF lo = hi THEN Abs(s[lo])
    ELSE LET mid == (lo + hi) \div 2
         IN  GCD(GCDRange(s, lo, mid), GCDRange(s, mid + 1, hi))

SeqGCD(s) == GCDRange(s, 1, Len(s))

\* The common denominator of the three columns.
CommonDen(den) == LCM(den[1], LCM(den[2], den[3]))

\* Weight of column c when squared differences of numerators are summed
\* over the denominator CommonDen(den)^2.
ColWeights(den) ==
    [c \in Cols |-> (CommonDen(den) \div den[c]) * (CommonDen(den) \div den[c])]

\* StandardScaler().fit_transform(features): (value - mean) / std_deviation
\* per column, population form; a column of zero variance is scaled by 1 and
\* becomes all zeros.  With n * sum(x^2) - (sum x)^2 = r^2 the scaled value
\* is (n * value - sum) / r; the result keeps, per column, integer numerators
\* over one common denominator.  The windows of the model have columns whose
\* r is an integer.
ScaledColumn(values) ==
    LET n == Len(values)
        S == SeqSum(values)
        r == Sqrt(np_std(values).num)
        nums == [i \in 1..n |-> n * values[i] - S]
        g == GCD(r, SeqGCD(nums))
    IN  IF r = 0 THEN [nums |-> [i \in 1..n |-> 0], den |-> 1]
        ELSE [nums |-> [i \in 1..n |-> nums[i] \div g], den |-> r \div g]

fit_transform(features) ==
    LET cols == [c \in Cols |-> ScaledColumn(Column(features, c))]
    IN  [rows |-> [i \in 1..Len(features) |-> [c \in Cols |-> cols[c].nums[i]]],
         den  |-> [c \in Cols |-> cols[c].den],
         weights |-> ColWeights([c \in Cols |-> cols[c].den])]

\* A centroid is the mean of count rows of the scaled matrix: [sum, count].
RowCentroid(row) == [sum |-> row, count |-> 1]

Square(x) == x * x

\* Squared Euclidean distance between a row and a centroid, in units of
\* 1 / CommonDen(den)^2 (w = ColWeights(den)).
Distance2(row, centroid, w) ==
    [num |-> w[1] * Square(row[1] * centroid.count - centroid.sum[1])
           + w[2] * Square(row[2] * centroid.count - centroid.sum[2])
           + w[3] * Square(row[3] * centroid.count - centroid.sum[3]),
     den |-> centroid.count * centroid.count]

\* Squared distance between two centroids, same units.
Movement2(old, new, w) ==
    [num |-> w[1] * Square(new.sum[1] * old.count - old.sum[1] * new.count)
           + w[2] * Square(new.sum[2] * old.count - old.sum[2] * new.count)
           + w[3] * Square(new.sum[3] * old.count - old.sum[3] * new.count),
     den |-> Square(old.count * new.count)]

\* The nearest centroid of a row; the lowest id wins a tie.
RECURSIVE NearestFrom(_, _, _, _, _)
NearestFrom(row, centroids, w, j, best) ==
    IF j > Len(centroids) THEN best
    ELSE NearestFrom(row, centroids, w, j + 1,
            IF RatLess(Distance2(row, centroids[j], w), Distance2(row, centroids[best], w))
            THEN j ELSE best)

Nearest(row, centroids, w) == NearestFrom(row, centroids, w, 2, 1)

\* Assignment step: every row to its nearest centroid.
Assign(scaled, centroids) ==
    [i \in 1..Len(scaled.rows) |-> Nearest(scaled.rows[i], centroids, scaled.weights)]

\* Sum of column c over the rows labelled j, and their number.
MemberSum(rows, labels, j, c) ==
    SeqSum([i \in 1..Len(rows) |-> IF labels[i] = j THEN rows[i][c] ELSE 0])

MemberCount(labels, j) ==
    SeqSum([i \in 1..Len(labels) |-> IF labels[i] = j THEN 1 ELSE 0])

\* Number of clusters an assignment leaves without members.
EmptyClusters(labels, k) == Cardinality({j \in 1..k : MemberCount(labels, j) = 0})

\* Empty-cluster policy: the first row, in observation order, that is
\* farthest from its own assigned centroid.
RECURSIVE FarthestIn(_, _, _)
FarthestIn(dist, lo, hi) ==
    IF lo = hi THEN lo
    ELSE LET mid == (lo + hi) \div 2
             a == FarthestIn(dist, lo, mid)
             b == FarthestIn(dist, mid + 1, hi)
         IN  IF RatLess(dist[a], dist[b]) THEN b ELSE a

FarthestRow(scaled, centroids, labels) ==
    FarthestIn([i \in 1..Len(scaled.rows) |->
                   Distance2(scaled.rows[i], centroids[labels[i]], scaled.weights)],
               1, Len(scaled.rows))

\* Update step: the mean of the assigned rows; an empty cluster is reseeded.
Update(scaled, centroids, labels) ==
    LET farthest == FarthestRow(scaled, centroids, labels)
    IN  [j \in 1..Len(centroids) |->
            IF MemberCount(labels, j) = 0
            THEN RowCentroid(scaled.rows[farthest])
            ELSE [sum |-> [c \in Cols |-> MemberSum(scaled.rows, labels, j, c)],
                  count |-> MemberCount(labels, j)]]

\* The maximum centroid movement is below the tolerance.
Converged(old, new, scaled) ==
    \A j \in 1..Len(old) :
        RatLess(Movement2(old[j], new[j], scaled.weights),
                [num |-> Square(CommonDen(scaled.den)), den |-> ToleranceInvSq])

\* Initial centroids: k rows of the scaled matrix.  With random_state set
\* the rows are those the seeded generator draws (the same on every run);
\* without it they would come from the run's own entropy.
DrawRows(draw, n, k) == [j \in 1..k |-> (((j - 1) * draw.stride) % n) + 1]

\* KMeans without random_state: the rows come from the run's entropy.
InitRowsUnseeded(random_state, seedDraw, runDraw, n, k) == DrawRows(runDraw, n, k)

InitRows(random_state, seedDraw, runDraw, n, k) ==
    IF random_state = RandomState THEN DrawRows(seedDraw, n, k)
    ELSE DrawRows(runDraw, n, k)

\* np.mean of a list: sum / count; of an empty list, NaN (den = 0).
MeanOf(data, idx, field) ==
    [num |-> SeqSum([i \in 1..Len(data) |-> IF i \in idx THEN data[i][field] ELSE 0]),
     den |-> Cardinality(idx)]

\* Comparisons with an average; any comparison with NaN is false.
Below(avg, t) == avg.den # 0 /\ avg.num < t * avg.den
AtLeast(avg, t) == avg.den # 0 /\ avg.num >= t * avg.den

\* Branches past the four of classify_pattern.
more_classifications(avg_temp, avg_humidity) ==
    IF AtLeast(avg_temp, 10 * TempScale) /\ Below(avg_temp, 20 * TempScale)
    THEN "Moderate"
    ELSE "Variable"

classify_pattern(avg_temp, avg_humidity) ==
    IF Below(avg_temp, 10 * TempScale) /\ Below(avg_humidity, 60)
    THEN "Cold & Dry"
    ELSE IF Below(avg_temp, 10 * TempScale) /\ AtLeast(avg_humidity, 60)
    THEN "Cold & Humid"
    ELSE IF AtLeast(avg_temp, 10 * TempScale) /\ Below(avg_temp, 20 * TempScale)
            /\ Below(avg_humidity, 70)
    THEN "Moderate"
    ELSE IF AtLeast(avg_temp, 20 * TempScale) /\ AtLeast(avg_humidity, 70)
    THEN "Hot & Humid"
    ELSE more_classifications(avg_temp, avg_humidity)

\* len(cluster_data) // len(data) * 100: the division taken on integers.
percentage_floordiv(count, total) == [num |-> (count \div total) * 100, den |-> total]

\* len(cluster_data) / len(data) * 100.
percentage(count, total) == [num |-> 100 * count, den |-> total]

\* cluster_data = [data[j] for j in range(len(data)) if labels[j] == i].
cluster_data(labels, i) == {j \in DOMAIN labels : labels[j] = i}

\* Step 5 of cluster_patterns: one pattern per cluster id, in id order
\* (cluster ids 0 .. n_clusters-1 are the labels 1 .. n_clusters less one).
analyze_clusters(data, labels, n_clusters) ==
    [i \in 1..n_clusters |->
        LET members == cluster_data(labels, i)
            avg_temperature == MeanOf(data, members, "temperature")
            avg_humidity == MeanOf(data, members, "humidity")
        IN  [cluster_id |-> i - 1,
             pattern_type |-> classify_pattern(avg_temperature, avg_humidity),
             avg_temperature |-> avg_temperature,
             avg_humidity |-> avg_humidity,
             avg_pressure |-> MeanOf(data, members, "pressure"),
             count |-> Cardinality(members),
             percentage |-> percentage(Cardinality(members), Len(data))]]

NoRun == [k |-> 0]

NoPrevious == [patterns |-> <<>>, labels |-> <<>>, centroids |-> <<>>]

(***************************************************************************)
(* Inputs.                                                                 *)
(***************************************************************************)
\* Windows of 8 .. MaxWindow temperatures (from two below the minimum on),
\* each 0.00 or 0.01 degrees.
BinaryWindows ==
    UNION {[1..n -> {0, 1}] : n \in (MinAnomalyObservations - 2)..MaxWindow}

\* A base window of a values lo = 0 and b values hi = a + b (so that its mean
\* b and its standard deviation sqrt(a * b) are integers), in which no value
\* is itself anomalous (|z| <= 1.5), with one more observation at
\* mean + 4 * stddev inserted at position p.
InsertAt(s, p, x) == SubSeq(s, 1, p - 1) \o <<x>> \o SubSeq(s, p, Len(s))

BaseWindow(a, b) == [i \in 1..(a + b) |-> IF i <= a THEN 0 ELSE a + b]

BasePairs ==
    {x \in (1..MaxBase) \X (1..MaxBase) :
        /\ x[1] + x[2] >= MinAnomalyObservations - 1
        /\ x[1] + x[2] <= MaxBase
        /\ IsSquare(x[1] * x[2])
        /\ 4 * x[1] <= 9 * x[2]
        /\ 4 * x[2] <= 9 * x[1]}

Injected(a, b, p) ==
    [temps |-> InsertAt(BaseWindow(a, b), p, b + 4 * Sqrt(a * b)),
     injectedAt |-> p]

InjectedWindows ==
    UNION {{Injected(ab[1], ab[2], p) : p \in {1, ab[1] + 1, ab[1] + ab[2] + 1}} :
              ab \in BasePairs}

\* Windows around the 30-observation minimum: a line of slope k hundredths
\* of a degree per day (k = 1 is a slope of exactly 0.01), plus a noise
\* pattern when |k| <= 1.
NoiseKinds == {"none", "alternate", "spike", "step", "halfslope"}

Noise(kind, i, n) ==
    CASE kind = "none"      -> 0
      [] kind = "alternate" -> i % 2
      [] kind = "spike"     -> IF i = n \div 2 THEN 3 ELSE 0
      [] kind = "step"      -> IF i >= n \div 2 THEN 2 ELSE 0
      [] kind = "halfslope" -> i \div 2

TrendWindow(n, k, kind) == [i \in 1..n |-> k * (i - 1) + Noise(kind, i - 1, n)]

TrendShapes ==
    {x \in ((-MaxSlope)..MaxSlope) \X NoiseKinds :
        \/ x[2] = "none"
        \/ x[2] = "halfslope" /\ x[1] \in {-1, 0}
        \/ x[2] \notin {"none", "halfslope"} /\ Abs(x[1]) <= 1}

TrendWindows ==
    {TrendWindow(n, x[1], x[2]) :
        n \in (MinTrendObservations - 1)..MaxTrendWindow, x \in TrendShapes}

\* Two windows whose R^2 is exactly 0.7 (31 observations) and exactly 0.4
\* (30 observations).
BoundaryWindows ==
    {<<3, 2, 0, 4, 5, 4, 3, 6, 5, 5, 8, 6, 5, 11, 12, 8, 11, 12, 8, 9, 12, 7,
       10, 8, 12, 13, 12, 10, 15, 9, 13>>,
     <<0, 0, 2, 23, 2, 7, 10, 26, 0, 13, 12, 26, 18, 26, 3, 10, 9, 25, 13, 27,
       4, 23, 12, 9, 29, 31, 26, 32, 28, 34>>}

\* Windows for clustering.  Every feature takes a low and a high value, the
\* rows follow a repeating pattern of (temperature, humidity, pressure)
\* levels, and invalid observations (one feature missing) come first.
Levels(warm) ==
    [temperature |-> IF warm THEN <<1500, 2500>> ELSE <<500, 1500>>,
     humidity    |-> <<55, 75>>,
     pressure    |-> <<1005, 1020>>]

RowPatterns ==
    [pair     |-> <<(<<0, 0, 0>>), <<1, 1, 1>>>>,
     pairFlat |-> <<(<<0, 0, 0>>), <<1, 1, 0>>>>,
     six      |-> <<(<<0, 0, 0>>), <<1, 1, 1>>, <<0, 0, 1>>, <<1, 1, 0>>, <<0, 1, 0>>, <<1, 0, 1>>>>,
     rare     |-> <<(<<0, 0, 0>>), <<0, 0, 0>>, <<0, 0, 0>>, <<0, 0, 0>>, <<1, 1, 1>>>>]

Layouts ==
    {[pattern |-> "pair",     blocked |-> FALSE, warm |-> FALSE],
     [pattern |-> "pair",     blocked |-> TRUE,  warm |-> TRUE],
     [pattern |-> "pairFlat", blocked |-> FALSE, warm |-> TRUE],
     [pattern |-> "six",      blocked |-> FALSE, warm |-> FALSE],
     [pattern |-> "six",      blocked |-> TRUE,  warm |-> TRUE],
     [pattern |-> "rare",     blocked |-> FALSE, warm |-> FALSE]}

ValidSizes == {MinClusterObservations - 1, MinClusterObservations}

LayoutRow(layout, n, i) ==
    LET pat  == RowPatterns[layout.pattern]
        bits == IF layout.blocked THEN pat[((i - 1) * Len(pat)) \div n + 1]
                ELSE pat[((i - 1) % Len(pat)) + 1]
        lv   == Levels(layout.warm)
    IN  Obs(lv.temperature[bits[1] + 1], lv.humidity[bits[2] + 1], lv.pressure[bits[3] + 1])

Invalid(m) == [Obs(1000, 60, 1010) EXCEPT !.missing = {FeatureNames[(m % 3) + 1]}]

ClusterWindow(layout, n, m) ==
    [i \in 1..(n + m) |-> IF i <= m THEN Invalid(i) ELSE LayoutRow(layout, n, i - m)]

ClusterWindows ==
    {ClusterWindow(layout, n, 0) : layout \in Layouts, n \in ValidSizes}
    \cup {ClusterWindow(layout, n, m) :
            layout \in {x \in Layouts : x.pattern = "pair"},
            n \in ValidSizes, m \in 1..MaxInvalid}

Strides == {1, 7}

Draws == [stride : Strides]

NoDraw == [stride |-> 0]

IterationCaps == {1, DefaultMaxIterations}

\* Averages handed to the pattern rule table, temperatures in hundredths.
AverageTemperatures == {500, 999, 1000, 1500, 1999, 2000, 2210, 2500}
AverageHumidities == {50, 59, 60, 65, 69, 70, 82}

TempWindow(temps) == [i \in 1..Len(temps) |-> TempObs(temps[i])]

Inputs ==
    {[call |-> "detectAnomalies", data |-> TempWindow(w), injectedAt |-> 0] :
        w \in BinaryWindows}
    \cup {[call |-> "detectAnomalies", data |-> TempWindow(w.temps), injectedAt |-> w.injectedAt] :
        w \in InjectedWindows}
    \cup {[call |-> "analyzeTrend", data |-> TempWindow(w), injectedAt |-> 0] :
        w \in TrendWindows \cup BoundaryWindows}
    \cup {[call |-> "clusterPatterns", data |-> w, injectedAt |-> 0] :
        w \in ClusterWindows}
    \cup {[call |-> "labelPattern", data |-> <<Obs(x[1], x[2], 1013)>>, injectedAt |-> 0] :
        x \in AverageTemperatures \X AverageHumidities}

(***************************************************************************)
(* The browser client at page load: the module-level Maps of               *)
(* useCachedWeather.js are empty and no hook instance exists.              *)
(***************************************************************************)
\* A Map with no entry; Map.get, Map.set and Map.delete.
EmptyMap == [k \in {} |-> {}]
MapSet(m, key, value) == [k \in DOMAIN m \cup {key} |-> IF k = key THEN value ELSE m[k]]
MapDelete(m, key) == [k \in DOMAIN m \ {key} |-> m[k]]

\* null as data, null as error message, and a cityName prop that is
\* undefined (city?.name with no city).
Null == <<>>
NoError == "null"
Undefined == "undefined"

\* Map.get on a key the Map lacks.
NoEntry == [data |-> Null, timestamp |-> 0]
MapGet(m, key) == IF key \in DOMAIN m THEN m[key] ELSE NoEntry

\* A slot with no hook instance.
NoHook == [live |-> FALSE, api |-> "none", cityName |-> Undefined, data |-> Null,
           loading |-> FALSE, error |-> NoError, mountedRef |-> FALSE]

HookIds == 1..MaxHooks

Cities == {"Paris", "Oslo"}
CityNames == Cities \cup {Undefined}
Apis == {"getCurrentWeather", "getForecast"}

\* The key of a request in inflightRequests.
InflightKey(api, cityName) ==
    IF api = "getForecast" THEN "forecast_" \o cityName ELSE cityName

Keys == {InflightKey(api, city) : api \in Apis, city \in Cities}

\* The keys of the requests of one hook.
HookKeys(api) == {InflightKey(api, city) : city \in Cities}

\* The module as loaded, the calls being counted for these keys.
CacheWith(keys) ==
    /\ weatherCache = EmptyMap
    /\ forecastCache = EmptyMap
    /\ inflightRequests = EmptyMap
    /\ requests = [key \in keys |-> 0]
    /\ hooks = [h \in HookIds |-> NoHook]
    /\ loads = {}
    /\ now = 0
    /\ ticks = 0

CacheStart == CacheWith(Keys)

\* Date.now() is a count of milliseconds; 30 days of them exceed 32 bits, so
\* the guest pages keep it as whole days and milliseconds of the day.
Time(days, ms) == [days |-> days, ms |-> ms]

GuestStart ==
    /\ localStorage = EmptyMap
    /\ clock = Time(0, 0)
    /\ favorites = <<>>
    /\ insights = <<>>
    /\ expired = "none"
    /\ nextCity = 0
    /\ catalogue = 0

\* No user (useState(null)), no error, no call made and nothing returned.
NoUser == [id |-> 0, username |-> ""]
NoCall == [name |-> "none", username |-> ""]
NoResult == [success |-> FALSE, error |-> "", guestCities |-> <<>>]

\* The account the server has from the start.
TestUser == [id |-> 1, username |-> "testuser"]

\* The AuthProvider before its mount effect ran.
AuthStart ==
    /\ user = NoUser
    /\ authError = NoError
    /\ authLoading = TRUE
    /\ page = "start"
    /\ authCall = NoCall
    /\ result = NoResult
    /\ migration = <<>>
    /\ accounts = {TestUser.username}
    /\ dbFavorites = {}

\* No failed response handled yet, no modal open, no update requested.
NoResponseError == [status |-> 0, url |-> <<>>]
NoFailure == [error |-> NoResponseError, pathname |-> ""]
NoUpdate == [k \in {} |-> ""]
NoModal == [user |-> [username |-> "", email |-> ""],
            formData |-> [username |-> "", email |-> "", currentPassword |-> "",
                          newPassword |-> "", confirmPassword |-> ""],
            loading |-> FALSE, error |-> "", success |-> "", showPasswordFields |-> FALSE,
            open |-> FALSE]

\* No request handled yet.
NoRequest == [temperature |-> 0, fromScale |-> <<>>, toScale |-> <<>>]
NoResponse == [status |-> 0, body |-> <<>>]

PageStart ==
    /\ request = NoRequest
    /\ response = NoResponse
    /\ removals = {}
    /\ removed = {}
    /\ location = "/"
    /\ failure = NoFailure
    /\ rejection = NoResponseError
    /\ modal = NoModal
    /\ profileCall = NoUpdate

ClientStart == CacheStart /\ GuestStart /\ AuthStart /\ PageStart

(***************************************************************************)
(* The engine: one analyzer call on a read-only window.                    *)
(***************************************************************************)
Init ==
    /\ \E inp \in Inputs :
          /\ observations = inp.data
          /\ injectedAt = inp.injectedAt
          /\ call = inp.call
          /\ seeded \in IF inp.call = "clusterPatterns" THEN Draws ELSE {NoDraw}
    /\ entropy = NoDraw
    /\ pc = "ready"
    /\ status = "none"
    /\ anomalies = <<>>
    /\ fpInvalid = FALSE
    /\ trend = NoTrend
    /\ km = NoRun
    /\ patterns = <<>>
    /\ previous = NoPrevious
    /\ runs = 0
    /\ label = "none"
    /\ ClientStart

\* Entry point of anomaly detection: the minimum-data check, then
\* detect_anomalies.  std_dev = 0 is not tested before the division.
detectAnomalies ==
    /\ pc = "ready"
    /\ call = "detectAnomalies"
    /\ pc' = "done"
    /\ IF InsufficientData(Len(observations), MinAnomalyObservations)
       THEN /\ status' = "InsufficientDataError"
            /\ anomalies' = <<>>
            /\ fpInvalid' = FALSE
       ELSE /\ status' = "ok"
            /\ anomalies' = detect_anomalies(observations)
            /\ fpInvalid' = \E i \in 1..Len(observations) :
                               IsNaN(z_scores(Temperatures(observations))[i])
    /\ UNCHANGED <<clientVars, inputVars, trend, clusterVars, label>>

\* Entry point of trend analysis: the minimum-data check, then
\* analyze_trends and the two classification rules.
analyzeTrend ==
    /\ pc = "ready"
    /\ call = "analyzeTrend"
    /\ pc' = "done"
    /\ IF InsufficientData(Len(observations), MinTrendObservations)
       THEN /\ status' = "InsufficientDataError"
            /\ trend' = NoTrend
       ELSE /\ status' = "ok"
            /\ trend' = LET r == analyze_trends(observations)
                        IN  [direction |-> trend_direction(InDegrees(r.slope)),
                             confidence |-> confidence_level(r.r_squared),
                             result |-> r]
    /\ UNCHANGED <<clientVars, inputVars, anomalyVars, clusterVars, label>>

\* A K-Means run on the valid observations: scale, draw the initial
\* centroids, no row assigned yet.
StartRun(k, maxIterations, runDraw) ==
    LET scaled == fit_transform(Features(ValidObservations(observations)))
        rows == InitRows(RandomState, seeded, runDraw, Len(scaled.rows), k)
    IN  [k |-> k,
         maxIterations |-> maxIterations,
         scaled |-> scaled,
         centroids |-> [j \in 1..k |-> RowCentroid(scaled.rows[rows[j]])],
         labels |-> [i \in 1..Len(scaled.rows) |-> 0],
         iteration |-> 0,
         reseeds |-> 0]

\* Entry point of clustering: observations lacking a feature are excluded,
\* then the minimum-data check, then the K-Means run starts.
clusterPatterns ==
    /\ pc = "ready"
    /\ call = "clusterPatterns"
    /\ runs' = 1
    /\ entropy' \in Draws
    /\ IF InsufficientData(Len(ValidObservations(observations)), MinClusterObservations)
       THEN /\ status' = "InsufficientDataError"
            /\ pc' = "done"
            /\ km' = NoRun
       ELSE /\ status' = "running"
            /\ pc' = "iterating"
            /\ \E k \in MinClusters..MaxClusters, maxIterations \in IterationCaps :
                  km' = StartRun(k, maxIterations, entropy')
    /\ UNCHANGED <<clientVars, inputVars, anomalyVars, trend, patterns, previous, label>>

\* A Lloyd iteration that stops on the tolerance alone.
lloydIterationUncapped ==
    /\ pc = "iterating"
    /\ LET labels == Assign(km.scaled, km.centroids)
           new    == Update(km.scaled, km.centroids, labels)
       IN  /\ km' = [km EXCEPT !.labels = labels,
                               !.centroids = new,
                               !.iteration = km.iteration + 1,
                               !.reseeds = km.reseeds + EmptyClusters(labels, km.k)]
           /\ pc' = IF Converged(km.centroids, new, km.scaled)
                    THEN "labelling" ELSE "iterating"
    /\ UNCHANGED <<clientVars, inputVars, anomalyVars, trend, status, entropy, patterns, previous, runs, label>>

\* One Lloyd iteration: assign, update (reseeding empty clusters), then stop
\* when the centroids moved less than the tolerance or the cap is reached.
lloydIteration ==
    /\ pc = "iterating"
    /\ LET labels == Assign(km.scaled, km.centroids)
           new    == Update(km.scaled, km.centroids, labels)
       IN  /\ km' = [km EXCEPT !.labels = labels,
                               !.centroids = new,
                               !.iteration = km.iteration + 1,
                               !.reseeds = km.reseeds + EmptyClusters(labels, km.k)]
           /\ pc' = IF \/ Converged(km.centroids, new, km.scaled)
                       \/ km.iteration + 1 >= km.maxIterations
                    THEN "labelling" ELSE "iterating"
    /\ UNCHANGED <<clientVars, inputVars, anomalyVars, trend, status, entropy, patterns, previous, runs, label>>

\* The patterns of the final assignment.
reportPatterns ==
    /\ pc = "labelling"
    /\ pc' = "done"
    /\ status' = "ok"
    /\ patterns' = analyze_clusters(ValidObservations(observations), km.labels, km.k)
    /\ UNCHANGED <<clientVars, inputVars, anomalyVars, trend, km, entropy, previous, runs, label>>

\* The caller runs clusterPatterns again on the same input and parameters.
rerun ==
    /\ pc = "done"
    /\ call = "clusterPatterns"
    /\ status = "ok"
    /\ runs < MaxRuns
    /\ runs' = runs + 1
    /\ previous' = [patterns |-> patterns, labels |-> km.labels, centroids |-> km.centroids]
    /\ patterns' = <<>>
    /\ entropy' \in Draws
    /\ km' = StartRun(km.k, km.maxIterations, entropy')
    /\ status' = "running"
    /\ pc' = "iterating"
    /\ UNCHANGED <<clientVars, inputVars, anomalyVars, trend, label>>

\* ClassificationRules.labelPattern on a pair of averages.
labelPattern ==
    /\ pc = "ready"
    /\ call = "labelPattern"
    /\ pc' = "done"
    /\ status' = "ok"
    /\ label' = classify_pattern([num |-> observations[1].temperature, den |-> 1],
                                 [num |-> observations[1].humidity, den |-> 1])
    /\ UNCHANGED <<clientVars, inputVars, anomalyVars, trend, clusterVars>>

Next ==
    \/ detectAnomalies
    \/ analyzeTrend
    \/ clusterPatterns
    \/ lloydIteration
    \/ reportPatterns
    \/ rerun
    \/ labelPattern

Spec == Init /\ [][Next]_vars

\* The iteration is a loop of one sequential call: while it can take a step
\* it takes one.
\* One clusterPatterns call on a window of the minimum size.
InitTerminates ==
    /\ Init
    /\ call = "clusterPatterns"
    /\ Len(observations) = MinClusterObservations

NextTerminates ==
    \/ clusterPatterns
    \/ lloydIteration
    \/ reportPatterns

\* Weak fairness of lloydIteration, WF_vars(lloydIteration), with its
\* enabling condition written out: the action has no guard but
\* pc = "iterating", and it always changes km.iteration.
FairIteration == <>[](pc = "iterating") => []<><<lloydIteration>>_vars

SpecTerminates == InitTerminates /\ [][NextTerminates]_vars /\ FairIteration

(***************************************************************************)
(* Properties.                                                             *)
(***************************************************************************)
AnomalyDone == call = "detectAnomalies" /\ pc = "done"
TrendDone == call = "analyzeTrend" /\ pc = "done"
ClusterDone == call = "clusterPatterns" /\ pc = "done"

C3_InjectedAlwaysHigh ==
    (AnomalyDone /\ injectedAt # 0 /\ Len(observations) >= 10) =>
        \E k \in 1..Len(anomalies) :
            anomalies[k].date = injectedAt /\ anomalies[k].severity = "High"

\* C3: one observation injected at mean + 4 * stddev of an otherwise normal
\* window gives a record of severity High for that observation when the
\* window, injected observation included, has 23 observations or more; with
\* 10 to 22 observations the record is there with severity Medium.
C3_InjectedHighFrom23 ==
    (AnomalyDone /\ injectedAt # 0 /\ Len(observations) >= 10) =>
        \E k \in 1..Len(anomalies) :
            /\ anomalies[k].date = injectedAt
            /\ anomalies[k].severity =
                  IF Len(observations) >= 23 THEN "High" ELSE "Medium"

\* A window of exactly 23 observations whose injected observation is High.
C3_Witness ==
    /\ AnomalyDone /\ injectedAt # 0 /\ Len(observations) = 23
    /\ \E k \in 1..Len(anomalies) :
          anomalies[k].date = injectedAt /\ anomalies[k].severity = "High"

\* C4 as stated: for a window of at least 10 observations whose temperatures
\* are all equal, detectAnomalies returns the empty list and raises no
\* error, no z-score is computed and no division by zero occurs.
C4_FlatWindowNoDivision ==
    (/\ AnomalyDone
     /\ Len(observations) >= 10
     /\ \A i \in 1..Len(observations) :
           observations[i].temperature = observations[1].temperature)
        => (status = "ok" /\ anomalies = <<>> /\ ~fpInvalid)

\* C5: direction is increasing iff slope > 0.01, decreasing iff
\* slope < -0.01 and stable otherwise (slope exactly 0.01 or -0.01 is
\* stable).  The slope num / den is in hundredths of a degree per day, so
\* slope > 0.01 degrees per day is num > den.
C5_Direction ==
    (TrendDone /\ status = "ok") =>
        LET slope == trend.result.slope
        IN  /\ slope.den > 0
            /\ (trend.direction = "increasing") <=> (slope.num > slope.den)
            /\ (trend.direction = "decreasing") <=> (slope.num < -slope.den)
            /\ (trend.direction = "stable") <=>
                  (slope.num <= slope.den /\ slope.num >= -slope.den)

\* A window whose slope is exactly 0.01 degrees per day, reported stable.
C5_Witness ==
    /\ TrendDone /\ status = "ok"
    /\ trend.result.slope.num = trend.result.slope.den
    /\ trend.direction = "stable"

C8_Partition ==
    (ClusterDone /\ status = "ok") =>
        LET valid == Cardinality({i \in 1..Len(observations) : observations[i].missing = {}})
            k == Len(patterns)
            den == patterns[1].percentage.den
            pct == SeqSum([j \in 1..k |-> patterns[j].percentage.num])
        IN  /\ k = km.k /\ k \in 2..6
            /\ Len(km.labels) = valid
            /\ \A i \in 1..valid : km.labels[i] \in 1..k
            /\ \A j \in 1..k :
                  /\ patterns[j].count = Cardinality({i \in 1..valid : km.labels[i] = j})
                  /\ patterns[j].percentage.den = den
            /\ SeqSum([j \in 1..k |-> patterns[j].count]) = valid
            /\ den > 0
            /\ 10 * (pct - 100 * den) <= den
            /\ 10 * (100 * den - pct) <= den

\* Six clusters, every one with members, on 30 valid observations.
C8_Witness ==
    /\ ClusterDone /\ status = "ok"
    /\ km.k = 6
    /\ Len(km.labels) = 30
    /\ \A j \in 1..6 : patterns[j].count > 0

C10_LabelTable ==
    (call = "labelPattern" /\ pc = "done") =>
        LET t == observations[1].temperature
            h == observations[1].humidity
        IN  label = IF t < 1000 /\ h < 60 THEN "Cold & Dry"
                    ELSE IF t < 1000 THEN "Cold & Humid"
                    ELSE IF t < 2000 THEN "Moderate"
                    ELSE IF h >= 70 THEN "Warm & Humid"
                    ELSE "Variable"

(***************************************************************************)
(* The weather cache of the browser client (useCachedWeather.js): two      *)
(* hooks over module-level Maps shared by every hook instance.  A hook's   *)
(* effect runs synchronously up to its await; when a request settles, the  *)
(* continuations of all the closures awaiting its promise run back to back *)
(* as microtasks, before any other task.                                   *)
(***************************************************************************)
CACHE_TTL == 10 * 60 * 1000

\* The clock advances by half the TTL.
TickSteps == {CACHE_TTL \div 2}

\* What a rejected request throws: an error with a message, or without one.
Rejections == {[message |-> "Network Error"], [message |-> ""]}

\* The promise of the n-th call of an api for a city, and the body of its
\* response: no two responses are the same object.
Promise(api, cityName, n) == [api |-> api, city |-> cityName, call |-> n]
Payload(promise) == <<promise.api, promise.city, promise.call>>

RECURSIVE SumCalls(_)
SumCalls(keys) ==
    IF keys = {} THEN 0
    ELSE LET key == CHOOSE k \in keys : TRUE
         IN  requests[key] + SumCalls(keys \ {key})

isCacheValidInclusive(cacheEntry) ==
    IF cacheEntry = NoEntry THEN FALSE
    ELSE now - cacheEntry.timestamp <= CACHE_TTL

isCacheValid(cacheEntry) ==
    IF cacheEntry = NoEntry THEN FALSE
    ELSE now - cacheEntry.timestamp < CACHE_TTL

CacheOf(api) == IF api = "getForecast" THEN forecastCache ELSE weatherCache

DefaultError(api) ==
    IF api = "getForecast" THEN "Failed to load forecast data"
    ELSE "Failed to load weather data"

\* err?.message || default
ErrorMessage(err, default) == IF err.message = "" THEN default ELSE err.message

\* inflightRequests.get(key) finds a pending promise.
HasInflightNever(key) == FALSE

HasInflight(key) == key \in DOMAIN inflightRequests

\* The effect of a hook for a cityName, up to the await of loadWeather /
\* loadForecast: the cleanup of the previous effect, then
\* mountedRef.current = true, then either the reset for a missing cityName,
\* the cached entry, or the promise in flight (issuing the call if none).
Effect(h, api, cityName) ==
    LET cached == MapGet(CacheOf(api), cityName)
        key == InflightKey(api, cityName)
        state == [live |-> TRUE, api |-> api, cityName |-> cityName,
                  data |-> hooks[h].data, loading |-> TRUE, error |-> NoError,
                  mountedRef |-> TRUE]
    IN  IF cityName = Undefined
        THEN /\ hooks' = [hooks EXCEPT ![h] = [state EXCEPT !.data = Null, !.loading = FALSE]]
             /\ UNCHANGED <<inflightRequests, requests, loads>>
        ELSE IF isCacheValid(cached)
        THEN /\ hooks' = [hooks EXCEPT ![h] = [state EXCEPT !.data = cached.data, !.loading = FALSE]]
             /\ UNCHANGED <<inflightRequests, requests, loads>>
        ELSE IF HasInflight(key)
        THEN /\ hooks' = [hooks EXCEPT ![h] = state]
             /\ loads' = loads \cup {[hook |-> h, cityName |-> cityName,
                                     promise |-> inflightRequests[key]]}
             /\ UNCHANGED <<inflightRequests, requests>>
        ELSE LET promise == Promise(api, cityName, requests[key] + 1)
             IN  /\ SumCalls(DOMAIN requests) < MaxRequests
                 /\ hooks' = [hooks EXCEPT ![h] = state]
                 /\ requests' = [requests EXCEPT ![key] = requests[key] + 1]
                 /\ inflightRequests' = MapSet(inflightRequests, key, promise)
                 /\ loads' = loads \cup {[hook |-> h, cityName |-> cityName,
                                         promise |-> promise]}

\* A component renders hook slot h with this cityName.  A first render
\* takes the lowest free slot, with the initial React state (null, loading,
\* null).  Slot 1 is a component of the selected city (WeatherBackground,
\* DailyForecast): its cityName changes, and is undefined while no city is
\* selected.  The other slots are components of one city each
\* (FavoriteCityCard).  The components of a page are instances of the hook
\* whose calls the page counts.
Renders(h, api, cityName) ==
    /\ HookKeys(api) \subseteq DOMAIN requests
    /\ \/ /\ ~hooks[h].live
          /\ \A g \in HookIds : g < h => hooks[g].live
          /\ h > 1 => cityName # Undefined
       \/ /\ hooks[h].live
          /\ h = 1
          /\ hooks[h].api = api
          /\ hooks[h].cityName # cityName

useCachedWeather(h, cityName) ==
    /\ Renders(h, "getCurrentWeather", cityName)
    /\ Effect(h, "getCurrentWeather", cityName)
    /\ UNCHANGED <<engineVars, pageVars, guestVars, authVars, weatherCache, forecastCache, now, ticks>>

useCachedForecast(h, cityName) ==
    /\ Renders(h, "getForecast", cityName)
    /\ Effect(h, "getForecast", cityName)
    /\ UNCHANGED <<engineVars, pageVars, guestVars, authVars, weatherCache, forecastCache, now, ticks>>

\* The component of hook h unmounts: the cleanup clears mountedRef, so the
\* continuations of its closures set no state any more; what they do to the
\* Maps is what the continuation of the closure that issued the request
\* does (see resolve and reject).
unmount(h) ==
    /\ hooks[h].live
    /\ hooks' = [hooks EXCEPT ![h] = NoHook]
    /\ loads' = {l \in loads : l.hook # h}
    /\ UNCHANGED <<engineVars, pageVars, guestVars, authVars, weatherCache, forecastCache, inflightRequests,
                   requests, now, ticks>>

Waiting(promise) == {l.hook : l \in {x \in loads : x.promise = promise}}

\* The city names under which the closures of an api that await the promise
\* store its result (each under its own cityName), with the closure that
\* issued the request.
StoredUnder(api, promise) ==
    {l.cityName : l \in {x \in loads : x.promise = promise /\ hooks[x.hook].api = api}}
    \cup (IF promise.api = api THEN {promise.city} ELSE {})

\* Map.set of one entry under each of the keys.
MapSetAll(m, keys, entry) ==
    [k \in DOMAIN m \cup keys |-> IF k \in keys THEN entry ELSE m[k]]

\* The pending request of a key resolves: every closure awaiting it stores
\* the entry in the Map of its hook under its own cityName, with the time of
\* its continuation, deletes the in-flight key and, while mounted, sets data
\* and loading.
resolve(key) ==
    /\ key \in DOMAIN inflightRequests
    /\ LET promise == inflightRequests[key]
           entry == [data |-> Payload(promise), timestamp |-> now]
       IN  /\ forecastCache' = MapSetAll(forecastCache, StoredUnder("getForecast", promise), entry)
           /\ weatherCache' = MapSetAll(weatherCache, StoredUnder("getCurrentWeather", promise),
                                        entry)
           /\ inflightRequests' = MapDelete(inflightRequests, key)
           /\ hooks' = [h \in HookIds |->
                           IF h \in Waiting(promise) /\ hooks[h].mountedRef
                           THEN [hooks[h] EXCEPT !.data = Payload(promise), !.loading = FALSE]
                           ELSE hooks[h]]
           /\ loads' = {l \in loads : l.promise # promise}
    /\ UNCHANGED <<engineVars, pageVars, guestVars, authVars, requests, now, ticks>>

\* The pending request of a key rejects with err: every closure awaiting it
\* deletes the in-flight key and, while mounted, sets error and loading.
reject(key, err) ==
    /\ key \in DOMAIN inflightRequests
    /\ LET promise == inflightRequests[key]
       IN  /\ inflightRequests' = MapDelete(inflightRequests, key)
           /\ hooks' = [h \in HookIds |->
                           IF h \in Waiting(promise) /\ hooks[h].mountedRef
                           THEN [hooks[h] EXCEPT
                                    !.error = ErrorMessage(err, DefaultError(hooks[h].api)),
                                    !.loading = FALSE]
                           ELSE hooks[h]]
           /\ loads' = {l \in loads : l.promise # promise}
    /\ UNCHANGED <<engineVars, pageVars, guestVars, authVars, weatherCache, forecastCache, requests, now, ticks>>

tick(d) ==
    /\ ticks < MaxTicks
    /\ now' = now + d
    /\ ticks' = ticks + 1
    /\ UNCHANGED <<engineVars, pageVars, guestVars, authVars, weatherCache, forecastCache, inflightRequests,
                   requests, hooks, loads>>

\* The engine with no analyzer call.
EngineIdle ==
    /\ observations = <<>>
    /\ injectedAt = 0
    /\ call = "none"
    /\ seeded = NoDraw
    /\ entropy = NoDraw
    /\ pc = "idle"
    /\ status = "none"
    /\ anomalies = <<>>
    /\ fpInvalid = FALSE
    /\ trend = NoTrend
    /\ km = NoRun
    /\ patterns = <<>>
    /\ previous = NoPrevious
    /\ runs = 0
    /\ label = "none"

\* The page uses one of the two hooks, in one or more components.
InitCache ==
    /\ EngineIdle
    /\ GuestStart
    /\ AuthStart
    /\ PageStart
    /\ \E api \in Apis : CacheWith(HookKeys(api))

NextCache ==
    \/ \E h \in HookIds, cityName \in CityNames : useCachedWeather(h, cityName)
    \/ \E h \in HookIds, cityName \in CityNames : useCachedForecast(h, cityName)
    \/ \E h \in HookIds : unmount(h)
    \/ \E key \in Keys : resolve(key)
    \/ \E key \in Keys, err \in Rejections : reject(key, err)
    \/ \E d \in TickSteps : tick(d)

SpecCache == InitCache /\ [][NextCache]_vars

(***************************************************************************)
(* Properties of the weather cache.                                        *)
(***************************************************************************)
KeyOf(promise) == InflightKey(promise.api, promise.city)

\* The step is a load of city by hook h through the hook of api: the hook
\* had another cityName, or none, and now has this one.
Loads(h, api, city) ==
    /\ hooks[h].cityName # city
    /\ hooks'[h].cityName = city
    /\ Renders(h, api, city)
    /\ Effect(h, api, city)

\* The step is the resolution of the pending request of key.
Resolves(key) ==
    /\ key \in DOMAIN inflightRequests
    /\ ~(key \in DOMAIN inflightRequests')
    /\ resolve(key)

\* Every closure at its await waits for the one pending call of its key,
\* and that call is the only one issued for the key since the key was last
\* free.
OneCallPerKey ==
    \A l \in loads :
        /\ HasInflight(KeyOf(l.promise))
        /\ inflightRequests[KeyOf(l.promise)] = l.promise
        /\ requests[KeyOf(l.promise)] = l.promise.call

\* A load that finds no valid entry and a request in flight issues no call.
JoinsInflight ==
    \A h \in HookIds, api \in Apis, city \in Cities :
        /\ ~isCacheValid(MapGet(CacheOf(api), city))
        /\ HasInflight(InflightKey(api, city))
        /\ Loads(h, api, city)
        => /\ requests' = requests
           /\ h \in {l.hook : l \in {x \in loads' : x.promise = inflightRequests[InflightKey(api, city)]}}

\* When the call resolves, every mounted instance waiting for it gets its
\* response.
AllReceive ==
    \A key \in Keys :
        Resolves(key) =>
            \A h \in Waiting(inflightRequests[key]) :
                /\ hooks'[h].data = Payload(inflightRequests[key])
                /\ ~hooks'[h].loading

\* C11: simultaneous requests for the same city are deduplicated: when
\* several useCachedWeather instances load the same city while no valid
\* cache entry exists, exactly one getCurrentWeather call is issued for the
\* city and every instance receives that call's result; the same holds for
\* useCachedForecast and getForecast.
C11_Deduplicated ==
    /\ []OneCallPerKey
    /\ [][JoinsInflight /\ AllReceive]_vars

\* Two instances wait for the first and only call issued for their city.
C11_Witness ==
    \E h1 \in HookIds, h2 \in HookIds, l1 \in loads, l2 \in loads :
        /\ h1 # h2
        /\ l1.hook = h1 /\ l2.hook = h2
        /\ l1.promise = l2.promise
        /\ hooks[h1].cityName = l1.promise.city
        /\ hooks[h2].cityName = l1.promise.city
        /\ requests[KeyOf(l1.promise)] = 1

\* Hook h loads city from the cache: it shows the entry's data at once, and
\* neither a call nor a wait comes of the load.
ServedFromCache(h, city) ==
    /\ hooks'[h].data = MapGet(weatherCache, city).data
    /\ ~hooks'[h].loading
    /\ requests' = requests
    /\ loads' = loads

EntryAge(city) == now - weatherCache[city].timestamp

LoadByAge ==
    \A h \in HookIds, city \in Cities :
        Loads(h, "getCurrentWeather", city) =>
            /\ ServedFromCache(h, city)
                 <=> (city \in DOMAIN weatherCache /\ EntryAge(city) < CACHE_TTL)
            /\ ( /\ city \in DOMAIN weatherCache
                 /\ EntryAge(city) >= CACHE_TTL
                 /\ ~HasInflight(city)
                 => requests'[city] = requests[city] + 1 )

EntryReplaced ==
    \A city \in Cities :
        Resolves(city) =>
            /\ weatherCache'[city].data = Payload(inflightRequests[city])
            /\ weatherCache'[city].data # MapGet(weatherCache, city).data
            /\ weatherCache'[city].timestamp = now

\* C12: a useCachedWeather load of a city is served from the cache, with no
\* API call, if and only if the cache holds an entry for the city whose age
\* is strictly less than 10 minutes; once the age is 10 minutes or more the
\* next load issues a new getCurrentWeather call, and its response replaces
\* the entry with the new data and a fresh timestamp.
C12_CacheTtl == [][LoadByAge /\ EntryReplaced]_vars

\* An entry stored a full TTL after page load holds the second response for
\* its city, while an instance still shows the first one.
C12_Witness ==
    \E city \in Cities, h1 \in HookIds, h2 \in HookIds :
        /\ hooks[h1].data = Payload(Promise("getCurrentWeather", city, 1))
        /\ hooks[h2].data = Payload(Promise("getCurrentWeather", city, 2))
        /\ city \in DOMAIN weatherCache
        /\ weatherCache[city].data = hooks[h2].data
        /\ weatherCache[city].timestamp >= CACHE_TTL

\* C13: when the getCurrentWeather call for the hook's city rejects,
\* useCachedWeather ends with loading = false, error set and weather = null;
\* no cache entry is written for the city and its in-flight entry is
\* removed, so that a later load of the city issues a new request.
C13_RejectedLoad ==
    [][\A city \in Cities, err \in Rejections :
          reject(city, err) =>
              /\ \A h \in Waiting(inflightRequests[city]) :
                    hooks[h].cityName = city =>
                        /\ ~hooks'[h].loading
                        /\ hooks'[h].error # NoError
                        /\ hooks'[h].data = Null
              /\ weatherCache' = weatherCache
              /\ ~(city \in DOMAIN inflightRequests')]_vars

(***************************************************************************)
(* Guest mode (guestCities.js): the favourite cities of a visitor without  *)
(* an account live in localStorage, with the time of the last save.        *)
(***************************************************************************)
GUEST_CITIES_KEY == "guest_cities"
GUEST_CITIES_TIMESTAMP_KEY == "guest_cities_timestamp"
EXPIRATION_DAYS == 30

\* The documented size limit of the guest list.
GUEST_LIMIT == 10

DayMs == 24 * 60 * 60 * 1000
Millisecond == Time(0, 1)

Plus(t, d) ==
    LET ms == t.ms + d.ms
    IN  Time(t.days + d.days + ms \div DayMs, ms % DayMs)

Minus(t, u) ==
    IF t.ms >= u.ms THEN Time(t.days - u.days, t.ms - u.ms)
    ELSE Time(t.days - u.days - 1, t.ms - u.ms + DayMs)

Later(t, u) == t.days > u.days \/ (t.days = u.days /\ t.ms > u.ms)

Sign(t) == IF t.days < 0 THEN -1 ELSE IF t = Time(0, 0) THEN 0 ELSE 1

\* Number.toString and parseInt, Date.toISOString and new Date(string),
\* JSON.stringify and JSON.parse: a string is not the value it spells.
NumberToString(t) == [digits |-> t]
parseInt(string) == string.digits
toISOString(t) == [iso |-> t]
NewDate(string) == string.iso
JSONstringify(value) == [json |-> value]
JSONparse(string) == string.json

\* The comparator of getGuestCities: primary first, then newest first.
CompareCities(a, b) ==
    IF a.is_primary /\ ~b.is_primary THEN -1
    ELSE IF ~a.is_primary /\ b.is_primary THEN 1
    ELSE Sign(Minus(NewDate(b.addedAt), NewDate(a.addedAt)))

\* Array.prototype.sort is stable: c goes before the first city that the
\* comparator puts after it.
InsertCity(sorted, c) ==
    LET after == {i \in 1..Len(sorted) : CompareCities(c, sorted[i]) < 0}
        at == IF after = {} THEN Len(sorted) + 1
              ELSE CHOOSE i \in after : \A j \in after : i <= j
    IN  [i \in 1..(Len(sorted) + 1) |->
            IF i < at THEN sorted[i] ELSE IF i = at THEN c ELSE sorted[i - 1]]

RECURSIVE SortCities(_, _)
SortCities(cities, n) ==
    IF n = 0 THEN <<>> ELSE InsertCity(SortCities(cities, n - 1), cities[n])

getGuestCities(storage) ==
    IF GUEST_CITIES_KEY \in DOMAIN storage
    THEN LET parsed == JSONparse(storage[GUEST_CITIES_KEY])
         IN  SortCities(parsed, Len(parsed))
    ELSE <<>>

saveGuestCities(storage, cities, t) ==
    MapSet(MapSet(storage, GUEST_CITIES_KEY, JSONstringify(cities)),
           GUEST_CITIES_TIMESTAMP_KEY, NumberToString(t))

\* The id of a search result, and the id `guest-${Date.now()}-${city.id}`.
CityId(k) == [prefix |-> "", at |-> Time(0, 0), id |-> k]
GuestId(t, id) == [prefix |-> "guest-", at |-> t, id |-> id.id]

\* A check by id alone.
CityExistsById(cities, city) ==
    \E i \in 1..Len(cities) : cities[i].id = city.id

CityExists(cities, city) ==
    \E i \in 1..Len(cities) :
        \/ cities[i].id = city.id
        \/ cities[i].name = city.name /\ cities[i].country = city.country

addGuestCity(storage, city, t) ==
    LET cities == getGuestCities(storage)
        guestCity == [id |-> IF city.id.prefix = "guest-" THEN city.id
                             ELSE GuestId(t, city.id),
                      name |-> city.name,
                      country |-> city.country,
                      addedAt |-> toISOString(t),
                      is_primary |-> Len(cities) = 0]
    IN  IF CityExists(cities, city) THEN storage
        ELSE saveGuestCities(storage, Append(cities, guestCity), t)

WithoutCity(cities, cityId) == SelectSeq(cities, LAMBDA c : c.id # cityId)

removeGuestCity(storage, cityId, t) ==
    LET cities == getGuestCities(storage)
        wasPrimary == \E i \in 1..Len(cities) : cities[i].id = cityId /\ cities[i].is_primary
        filtered == WithoutCity(cities, cityId)
    IN  saveGuestCities(storage,
                        IF wasPrimary /\ Len(filtered) > 0
                        THEN [filtered EXCEPT ![1].is_primary = TRUE]
                        ELSE filtered,
                        t)

clearGuestCities(storage) ==
    MapDelete(MapDelete(storage, GUEST_CITIES_KEY), GUEST_CITIES_TIMESTAMP_KEY)

expirationMs == Time(EXPIRATION_DAYS, 0)

\* age > expirationMs, for the timestamp in the storage.
GuestDataExpired(storage, t) ==
    /\ GUEST_CITIES_TIMESTAMP_KEY \in DOMAIN storage
    /\ Later(Minus(t, parseInt(storage[GUEST_CITIES_TIMESTAMP_KEY])), expirationMs)

checkAndClearExpiredGuestData(storage, t) ==
    IF GuestDataExpired(storage, t)
    THEN [storage |-> clearGuestCities(storage), returned |-> "true"]
    ELSE [storage |-> storage, returned |-> "false"]

setPrimaryGuestCityKeeping(storage, cityId, t) ==
    LET cities == getGuestCities(storage)
    IN  saveGuestCities(storage,
                        [i \in 1..Len(cities) |->
                            [cities[i] EXCEPT !.is_primary = @ \/ cities[i].id = cityId]],
                        t)

setPrimaryGuestCity(storage, cityId, t) ==
    LET cities == getGuestCities(storage)
    IN  saveGuestCities(storage,
                        [i \in 1..Len(cities) |->
                            [cities[i] EXCEPT !.is_primary = cities[i].id = cityId]],
                        t)

\* The k-th city the search offers.
CatalogueNames == <<"Oslo", "Paris", "Lima", "Cairo", "Quito", "Rome",
                    "Seoul", "Tunis", "Turin", "Vienna", "Zagreb", "Accra">>
SearchCity(k) == [id |-> CityId(k), name |-> CatalogueNames[k], country |-> "--"]

\* What the guest can select on the Dashboard: a city the search has not
\* offered before, or again the city of the first card, as the search
\* result it was or as the card it is.
Selectable ==
    (IF nextCity < catalogue THEN {SearchCity(nextCity + 1)} ELSE {})
    \cup (IF favorites = <<>> THEN {}
          ELSE {SearchCity(favorites[1].id.id),
                [id |-> favorites[1].id, name |-> favorites[1].name,
                 country |-> favorites[1].country]})

\* The router mounts one page at a time (App.jsx): while ML Insights shows
\* cities the Dashboard is not mounted, and its handlers cannot run.
DashboardShown == insights = <<>>

\* Dashboard.handleCitySelect of a guest: addGuestCity, then loadFavorites.
\* A save happens later than the saves before it.
handleCitySelect(city) ==
    LET t == Plus(clock, Millisecond)
        saved == addGuestCity(localStorage, city, t)
    IN  /\ user = NoUser
        /\ DashboardShown
        /\ city \in Selectable
        /\ localStorage' = saved
        /\ clock' = IF saved = localStorage THEN clock ELSE t
        /\ nextCity' = IF city = SearchCity(nextCity + 1) THEN nextCity + 1 ELSE nextCity
        /\ favorites' = getGuestCities(saved)
        /\ UNCHANGED <<engineVars, pageVars, cacheVars, authVars, insights, expired, catalogue>>

\* FavoriteCityCard.handleRemove of a guest, then
\* Dashboard.handleRemoveFavorite: the card leaves the list shown and the
\* first remaining card becomes primary if the removed one was.
handleRemove(i) ==
    LET city == favorites[i]
        updated == WithoutCity(favorites, city.id)
    IN  /\ user = NoUser
        /\ DashboardShown
        /\ i \in 1..Len(favorites)
        /\ localStorage' = removeGuestCity(localStorage, city.id, clock)
        /\ favorites' = IF city.is_primary /\ Len(updated) > 0
                        THEN [j \in 1..Len(updated) |-> [updated[j] EXCEPT !.is_primary = j = 1]]
                        ELSE updated
        /\ UNCHANGED <<engineVars, pageVars, cacheVars, authVars, clock, insights, expired, nextCity, catalogue>>

\* FavoriteCityCard.handleSetPrimary of a guest, then
\* Dashboard.handlePrimaryChange (loadFavorites).
handleSetPrimary(i) ==
    /\ user = NoUser
    /\ DashboardShown
    /\ i \in 1..Len(favorites)
    /\ ~favorites[i].is_primary
    /\ localStorage' = setPrimaryGuestCity(localStorage, favorites[i].id, clock)
    /\ favorites' = getGuestCities(localStorage')
    /\ UNCHANGED <<engineVars, pageVars, cacheVars, authVars, clock, insights, expired, nextCity, catalogue>>

\* The Dashboard mounts for a guest: checkAndClearExpiredGuestData, then
\* loadFavorites.  The page mounted before is gone, and its state with it.
DashboardMount ==
    LET checked == checkAndClearExpiredGuestData(localStorage, clock)
    IN  /\ user = NoUser
        /\ localStorage' = checked.storage
        /\ expired' = checked.returned
        /\ favorites' = getGuestCities(checked.storage)
        /\ insights' = <<>>
        /\ UNCHANGED <<engineVars, pageVars, cacheVars, authVars, clock, nextCity, catalogue>>

\* The ML Insights page mounts for a guest: loadFavorites.
MLInsightsMount ==
    /\ user = NoUser
    /\ insights' = getGuestCities(localStorage)
    /\ favorites' = <<>>
    /\ UNCHANGED <<engineVars, pageVars, cacheVars, authVars, localStorage, clock, expired,
                   nextCity, catalogue>>

\* Time passes between two visits: the expiration time, or a millisecond
\* more.
Pauses == {expirationMs, Plus(expirationMs, Millisecond)}

elapse(d) ==
    /\ ticks < MaxPauses
    /\ ticks' = ticks + 1
    /\ clock' = Plus(clock, d)
    /\ UNCHANGED <<engineVars, pageVars, authVars, weatherCache, forecastCache, inflightRequests, requests,
                   hooks, loads, now, localStorage, favorites, insights, expired,
                   nextCity, catalogue>>

GuestIdle(cities) ==
    /\ CacheStart
    /\ localStorage = EmptyMap
    /\ clock = Time(0, 0)
    /\ favorites = <<>>
    /\ insights = <<>>
    /\ expired = "none"
    /\ nextCity = 0
    /\ catalogue = cities
    /\ AuthStart
    /\ PageStart

\* A guest on the pages, the search offering MaxCities cities.
InitGuest == EngineIdle /\ GuestIdle(MaxCities)

NextGuest ==
    \/ \E city \in Selectable : handleCitySelect(city)
    \/ \E i \in 1..Len(favorites) : handleRemove(i)
    \/ \E i \in 1..Len(favorites) : handleSetPrimary(i)
    \/ DashboardMount
    \/ MLInsightsMount
    \/ \E d \in Pauses : elapse(d)

SpecGuest == InitGuest /\ [][NextGuest]_vars

\* A guest on the Dashboard, the search offering one city more than the
\* documented limit of the guest list.
InitGuestLimit == EngineIdle /\ GuestIdle(GUEST_LIMIT + 1)

\* The cards the guest acts on here: the first and the last of the list.
EndCards == {1, Len(favorites)}

NextGuestLimit ==
    \/ \E city \in Selectable : handleCitySelect(city)
    \/ \E i \in EndCards : handleRemove(i)
    \/ \E i \in EndCards : handleSetPrimary(i)

SpecGuestLimit == InitGuestLimit /\ [][NextGuestLimit]_vars

(***************************************************************************)
(* Properties of guest mode.                                               *)
(***************************************************************************)
\* The guest list as stored, and the age of the storage's timestamp.
Stored(storage) ==
    IF GUEST_CITIES_KEY \in DOMAIN storage THEN JSONparse(storage[GUEST_CITIES_KEY])
    ELSE <<>>

PrimaryCities(cities) == {i \in 1..Len(cities) : cities[i].is_primary}

SavedLongAgo ==
    /\ GUEST_CITIES_TIMESTAMP_KEY \in DOMAIN localStorage
    /\ Later(Minus(clock, parseInt(localStorage[GUEST_CITIES_TIMESTAMP_KEY])),
             Time(EXPIRATION_DAYS, 0))

\* C14: a guest can store at most 10 favourite cities: after any sequence of
\* addGuestCity, removeGuestCity and setPrimaryGuestCity calls, those made
\* by the Dashboard for an unauthenticated user included, the guest list in
\* localStorage holds at most 10 cities.
C14_AtMostTenCities == Len(Stored(localStorage)) <= GUEST_LIMIT

\* C15: guest data expires after 30 days: once more than 30 days have
\* passed since the guest list was last saved, no page (Dashboard or ML
\* Insights) is served the stored cities, and checkAndClearExpiredGuestData
\* removes the list and its timestamp and returns true; while the data is 30
\* days old or younger it is left unchanged and false is returned.
C15_ExpiresAfter30Days ==
    [][/\ DashboardMount =>
              IF SavedLongAgo
              THEN /\ ~(GUEST_CITIES_KEY \in DOMAIN localStorage')
                   /\ ~(GUEST_CITIES_TIMESTAMP_KEY \in DOMAIN localStorage')
                   /\ expired' = "true"
                   /\ favorites' = <<>>
              ELSE /\ localStorage' = localStorage
                   /\ expired' = "false"
       /\ MLInsightsMount /\ SavedLongAgo => insights' = <<>>]_vars

SetPrimaryExact ==
    \A i \in 1..Len(favorites) :
        /\ handleSetPrimary(i)
        /\ \E j \in 1..Len(Stored(localStorage)) : Stored(localStorage)[j].id = favorites[i].id
        => /\ Cardinality(PrimaryCities(Stored(localStorage'))) = 1
           /\ \A j \in PrimaryCities(Stored(localStorage')) :
                 Stored(localStorage')[j].id = favorites[i].id

\* C20: only one city can be primary at a time: starting from empty guest
\* storage, after any sequence of addGuestCity, removeGuestCity and
\* setPrimaryGuestCity calls at most one stored guest city has is_primary =
\* true, and setPrimaryGuestCity(id) for a stored id leaves exactly that
\* city primary.
C20_OnePrimary ==
    /\ [](Cardinality(PrimaryCities(Stored(localStorage))) <= 1)
    /\ [][SetPrimaryExact]_vars

\* The city added first is stored and another city is the primary one.
C20_Witness ==
    LET cities == Stored(localStorage)
    IN  \E i \in 1..Len(cities), j \in 1..Len(cities) :
            /\ cities[i].id.id = 1
            /\ ~cities[i].is_primary
            /\ cities[j].is_primary
            /\ PrimaryCities(cities) = {j}

(***************************************************************************)
(* Accounts (AuthContext and the Register page): login, register with the  *)
(* migration of the guest cities, logout, and the start of the context     *)
(* from what localStorage holds.                                           *)
(***************************************************************************)
TOKEN_KEY == "token"
USER_KEY == "user"

isAuthenticated == user # NoUser

NewUser == [id |-> 2, username |-> "newuser"]
Users == {TestUser, NewUser}
Usernames == {u.username : u \in Users}
UserNamed(username) == CHOOSE u \in Users : u.username = username

\* The body of a successful login response.
LoginData(username) ==
    [access_token |-> "token-" \o username, user |-> UserNamed(username)]

\* What a failed call throws: a response with a detail, one whose detail is
\* empty, or no response at all.
ApiErrors == {[response |-> TRUE, detail |-> "Invalid credentials"],
              [response |-> TRUE, detail |-> ""],
              [response |-> FALSE, detail |-> ""]}

\* err.response?.data?.detail || default
ErrorDetailOnly(err, default) == err.detail

ErrorDetail(err, default) ==
    IF err.response /\ err.detail # "" THEN err.detail ELSE default

\* What login stores once the API call has succeeded.
StoredSessionTokenOnly(storage, data) == MapSet(storage, TOKEN_KEY, data.access_token)

StoredSession(storage, data) ==
    MapSet(MapSet(storage, TOKEN_KEY, data.access_token),
           USER_KEY, JSONstringify(data.user))

\* What logout leaves of the storage.
LoggedOutTokenOnly(storage) == MapDelete(storage, TOKEN_KEY)

LoggedOut(storage) == MapDelete(MapDelete(storage, TOKEN_KEY), USER_KEY)

\* The mount effect of the AuthProvider: the saved user is restored when
\* both keys are present.
AuthProviderMount ==
    /\ page = "start"
    /\ page' = "idle"
    /\ user' = IF TOKEN_KEY \in DOMAIN localStorage /\ USER_KEY \in DOMAIN localStorage
               THEN JSONparse(localStorage[USER_KEY])
               ELSE user
    /\ authLoading' = FALSE
    /\ UNCHANGED <<engineVars, pageVars, cacheVars, guestVars, authError, authCall, result,
                   migration, accounts, dbFavorites>>

\* The page is loaded anew: localStorage stays, the React state starts over.
reload ==
    /\ page = "idle"
    /\ page' = "start"
    /\ user' = NoUser
    /\ authError' = NoError
    /\ authLoading' = TRUE
    /\ authCall' = NoCall
    /\ result' = NoResult
    /\ migration' = <<>>
    /\ favorites' = <<>>
    /\ insights' = <<>>
    /\ expired' = "none"
    /\ UNCHANGED <<engineVars, pageVars, cacheVars, localStorage, clock, nextCity, catalogue,
                   accounts, dbFavorites>>

\* login(username, password), up to the await of authAPI.login.
login(username) ==
    /\ page = "idle"
    /\ page' = "login"
    /\ authCall' = [name |-> "login", username |-> username]
    /\ authError' = NoError
    /\ UNCHANGED <<engineVars, pageVars, cacheVars, guestVars, user, authLoading, result,
                   migration, accounts, dbFavorites>>

\* authAPI.login resolves, for login itself or for the login that follows a
\* registration: the session is stored, the user set, and the guest cities
\* are returned with success.  The Register page then starts one migration
\* task for each of them.
loginResolves ==
    LET data == LoginData(authCall.username)
        guestCities == getGuestCities(localStorage)
    IN  /\ page \in {"login", "registerLogin"}
        /\ authCall.username \in accounts
        /\ localStorage' = StoredSession(localStorage, data)
        /\ user' = data.user
        /\ result' = [success |-> TRUE, error |-> "", guestCities |-> guestCities]
        /\ IF page = "registerLogin" /\ Len(guestCities) > 0
           THEN /\ page' = "migrating"
                /\ migration' = [i \in 1..Len(guestCities) |-> "pending"]
           ELSE /\ page' = "idle"
                /\ UNCHANGED migration
        /\ UNCHANGED <<engineVars, pageVars, cacheVars, clock, favorites, insights, expired,
                       nextCity, catalogue, authError, authLoading, authCall,
                       accounts, dbFavorites>>

\* authAPI.login rejects: the message is set and returned with failure.
loginRejects(err) ==
    LET message == ErrorDetail(err, "Login failed. Please try again.")
    IN  /\ page \in {"login", "registerLogin"}
        /\ page' = "idle"
        /\ authError' = message
        /\ result' = [success |-> FALSE, error |-> message, guestCities |-> <<>>]
        /\ UNCHANGED <<engineVars, pageVars, cacheVars, guestVars, user, authLoading, authCall,
                       migration, accounts, dbFavorites>>

\* Register.handleSubmit with valid fields: register(username, email,
\* password), up to the await of authAPI.register.
register(username) ==
    /\ page = "idle"
    /\ page' = "register"
    /\ authCall' = [name |-> "register", username |-> username]
    /\ authError' = NoError
    /\ UNCHANGED <<engineVars, pageVars, cacheVars, guestVars, user, authLoading, result,
                   migration, accounts, dbFavorites>>

\* authAPI.register resolves: the account exists, and register goes on to
\* login.
registerResolves ==
    /\ page = "register"
    /\ ~(authCall.username \in accounts)
    /\ accounts' = accounts \cup {authCall.username}
    /\ page' = "registerLogin"
    /\ authError' = NoError
    /\ UNCHANGED <<engineVars, pageVars, cacheVars, guestVars, user, authLoading, authCall,
                   result, migration, dbFavorites>>

registerRejects(err) ==
    LET message == ErrorDetail(err, "Registration failed. Please try again.")
    IN  /\ page = "register"
        /\ page' = "idle"
        /\ authError' = message
        /\ result' = [success |-> FALSE, error |-> message, guestCities |-> <<>>]
        /\ UNCHANGED <<engineVars, pageVars, cacheVars, guestVars, user, authLoading, authCall,
                       migration, accounts, dbFavorites>>

\* How the migration task of a guest city ends: the search finds the city
\* by name and country and addFavorite succeeds; the search result has no
\* such city; or one of the two calls rejects, which the task swallows.
MigrationOutcomes == {"added", "unmatched", "failed"}

migrateCity(i, outcome) ==
    /\ page = "migrating"
    /\ i \in 1..Len(migration)
    /\ migration[i] = "pending"
    /\ migration' = [migration EXCEPT ![i] = outcome]
    /\ dbFavorites' = IF outcome = "added"
                      THEN dbFavorites \cup {<<user.username, result.guestCities[i].id.id>>}
                      ELSE dbFavorites
    /\ UNCHANGED <<engineVars, pageVars, cacheVars, guestVars, user, authError, authLoading,
                   page, authCall, result, accounts>>

\* Promise.all of the migration tasks resolves: clearGuestCities, then the
\* page navigates to the Dashboard.
migrated ==
    /\ page = "migrating"
    /\ \A i \in 1..Len(migration) : migration[i] # "pending"
    /\ localStorage' = clearGuestCities(localStorage)
    /\ page' = "idle"
    /\ UNCHANGED <<engineVars, pageVars, cacheVars, clock, favorites, insights, expired,
                   nextCity, catalogue, user, authError, authLoading, authCall,
                   result, migration, accounts, dbFavorites>>

logout ==
    /\ page = "idle"
    /\ localStorage' = LoggedOut(localStorage)
    /\ user' = NoUser
    /\ authError' = NoError
    /\ UNCHANGED <<engineVars, pageVars, cacheVars, clock, favorites, insights, expired,
                   nextCity, catalogue, authLoading, page, authCall, result,
                   migration, accounts, dbFavorites>>

\* A guest adds a city on the Dashboard.
guestSelects(city) ==
    /\ page = "idle"
    /\ handleCitySelect(city)

\* The page opens with empty storage; the search offers MaxCities cities.
InitAuth == EngineIdle /\ GuestIdle(MaxCities)

NextAuth ==
    \/ AuthProviderMount
    \/ reload
    \/ \E city \in Selectable : guestSelects(city)
    \/ \E username \in Usernames : login(username)
    \/ loginResolves
    \/ \E err \in ApiErrors : loginRejects(err)
    \/ \E username \in Usernames : register(username)
    \/ registerResolves
    \/ \E err \in ApiErrors : registerRejects(err)
    \/ \E i \in 1..Len(migration), outcome \in MigrationOutcomes : migrateCity(i, outcome)
    \/ migrated
    \/ logout

SpecAuth == InitAuth /\ [][NextAuth]_vars

(***************************************************************************)
(* Properties of accounts.                                                 *)
(***************************************************************************)
\* Register.handleSubmit has returned after a successful registration, and
\* the new user is still logged in.
Registered ==
    /\ authCall.name = "register"
    /\ result.success
    /\ page = "idle"
    /\ isAuthenticated

\* C16: guest data migrates to the database on signup: after a successful
\* registration every city of the guest list has been added to the new
\* account's favourites, and only then is the guest list cleared from
\* localStorage.
C16_MigratesThenClears ==
    /\ page = "migrating" => Stored(localStorage) # <<>>
    /\ Registered =>
          /\ \A i \in 1..Len(result.guestCities) :
                <<authCall.username, result.guestCities[i].id.id>> \in dbFavorites
          /\ Stored(localStorage) = <<>>

\* C17: after a login whose API call succeeds, the returned access_token and
\* user are stored in localStorage under 'token' and 'user', the context's
\* user is the returned user, isAuthenticated is true and login returns
\* success = true.
C17_LoginSucceeds ==
    [][loginResolves =>
          LET data == LoginData(authCall.username)
          IN  /\ TOKEN_KEY \in DOMAIN localStorage'
              /\ localStorage'[TOKEN_KEY] = data.access_token
              /\ USER_KEY \in DOMAIN localStorage'
              /\ JSONparse(localStorage'[USER_KEY]) = data.user
              /\ user' = data.user
              /\ user' # NoUser
              /\ result'.success]_vars

\* login has returned success and the session of its user is stored.
C17_Witness ==
    /\ authCall.name = "login"
    /\ page = "idle"
    /\ result.success
    /\ isAuthenticated
    /\ user.username = authCall.username
    /\ TOKEN_KEY \in DOMAIN localStorage

\* C18: if the login API call fails, login returns success = false with a
\* non-empty error message (the API's detail or a default), writes nothing
\* to localStorage and leaves user and isAuthenticated unchanged.
C18_LoginFails ==
    [][\A err \in ApiErrors :
          loginRejects(err) =>
              /\ ~result'.success
              /\ result'.error # ""
              /\ result'.error \in {err.detail, "Login failed. Please try again."}
              /\ localStorage' = localStorage
              /\ user' = user]_vars

\* login has returned the API's detail, and nobody is logged in.
C18_Witness ==
    /\ authCall.name = "login"
    /\ page = "idle"
    /\ ~result.success
    /\ result.error = "Invalid credentials"
    /\ ~isAuthenticated
    /\ ~(TOKEN_KEY \in DOMAIN localStorage)

\* C19: after logout, from any prior state, the 'token' and 'user' keys are
\* removed from localStorage, user is null and isAuthenticated is false; and
\* with no token in localStorage at startup the context starts with user =
\* null and isAuthenticated = false.
C19_LoggedOut ==
    /\ [](page = "start" => ~isAuthenticated)
    /\ [][/\ logout =>
                /\ ~(TOKEN_KEY \in DOMAIN localStorage')
                /\ ~(USER_KEY \in DOMAIN localStorage')
                /\ user' = NoUser
          /\ AuthProviderMount /\ ~(TOKEN_KEY \in DOMAIN localStorage) =>
                user' = NoUser]_vars

\* A login succeeded, and now nobody is logged in and no session is stored.
C19_Witness ==
    /\ authCall.name = "login"
    /\ result.success
    /\ page = "idle"
    /\ ~isAuthenticated
    /\ ~(TOKEN_KEY \in DOMAIN localStorage)
    /\ ~(USER_KEY \in DOMAIN localStorage)

(***************************************************************************)
(* The temperature converter (TemperatureConverterController).  A String   *)
(* is a sequence of characters; a temperature is an integer number of      *)
(* hundredths of a degree on the way in, and of Fraction-ths of a          *)
(* hundredth inside convertTemperature, where every quotient of the five   *)
(* scales is exact.  The program computes in double precision.             *)
(***************************************************************************)
UpperCase == <<"A", "B", "C", "D", "E", "F", "G", "H", "I", "J", "K", "L", "M", "N",
               "O", "P", "Q", "R", "S", "T", "U", "V", "W", "X", "Y", "Z", "É">>
LowerCase == <<"a", "b", "c", "d", "e", "f", "g", "h", "i", "j", "k", "l", "m", "n",
               "o", "p", "q", "r", "s", "t", "u", "v", "w", "x", "y", "z", "é">>

\* String.toLowerCase(), character by character.
toLowerCaseIdentity(string) == string

toLowerCase(string) ==
    [i \in 1..Len(string) |->
        IF \E k \in 1..Len(UpperCase) : UpperCase[k] = string[i]
        THEN LowerCase[CHOOSE k \in 1..Len(UpperCase) : UpperCase[k] = string[i]]
        ELSE string[i]]

\* The case labels of the two switches.
celsius == <<"c", "e", "l", "s", "i", "u", "s">>
fahrenheit == <<"f", "a", "h", "r", "e", "n", "h", "e", "i", "t">>
kelvin == <<"k", "e", "l", "v", "i", "n">>
rankine == <<"r", "a", "n", "k", "i", "n", "e">>
reaumur == <<"r", "é", "a", "u", "m", "u", "r">>

Fraction == 180
Degree == 100 * Fraction
KelvinOffset == 27315 * Fraction
RankineOffset == 49167 * Fraction
FahrenheitOffset == 32 * Degree

\* "Unsupported scale: " + scale
UnsupportedScale(scale) ==
    <<"U", "n", "s", "u", "p", "p", "o", "r", "t", "e", "d", " ",
      "s", "c", "a", "l", "e", ":", " ">> \o scale

Thrown(scale) == [thrown |-> TRUE, message |-> UnsupportedScale(scale), value |-> 0]
Returned(value) == [thrown |-> FALSE, message |-> <<>>, value |-> value]

\* The first switch of convertTemperature: to Celsius.
ToCelsius(temp, fromScale) ==
    LET scale == toLowerCase(fromScale)
    IN  IF scale = celsius THEN Returned(temp)
        ELSE IF scale = fahrenheit THEN Returned(((temp - FahrenheitOffset) * 5) \div 9)
        ELSE IF scale = kelvin THEN Returned(temp - KelvinOffset)
        ELSE IF scale = rankine THEN Returned(((temp - RankineOffset) * 5) \div 9)
        ELSE IF scale = reaumur THEN Returned((temp * 5) \div 4)
        ELSE Thrown(fromScale)

\* The second switch: from Celsius to the target scale.
FromCelsius(c, toScale) ==
    LET scale == toLowerCase(toScale)
    IN  IF scale = celsius THEN Returned(c)
        ELSE IF scale = fahrenheit THEN Returned((c * 9) \div 5 + FahrenheitOffset)
        ELSE IF scale = kelvin THEN Returned(c + KelvinOffset)
        ELSE IF scale = rankine THEN Returned(((c + KelvinOffset) * 9) \div 5)
        ELSE IF scale = reaumur THEN Returned((c * 4) \div 5)
        ELSE Thrown(toScale)

convertTemperature(temp, fromScale, toScale) ==
    LET c == ToCelsius(temp, fromScale)
    IN  IF c.thrown THEN c ELSE FromCelsius(c.value, toScale)

DigitChars == <<"0", "1", "2", "3", "4", "5", "6", "7", "8", "9">>

RECURSIVE Digits(_)
Digits(n) ==
    IF n < 10 THEN <<DigitChars[n + 1]>>
    ELSE Digits(n \div 10) \o <<DigitChars[(n % 10) + 1]>>

\* String.format("%.2f", value): two decimals, rounded half up.
Format2(value) ==
    LET magnitude == IF value < 0 THEN 0 - value ELSE value
        hundredths == (magnitude + Fraction \div 2) \div Fraction
    IN  (IF value < 0 THEN <<"-">> ELSE <<>>)
        \o Digits(hundredths \div 100)
        \o <<".">>
        \o <<DigitChars[((hundredths % 100) \div 10) + 1], DigitChars[(hundredths % 10) + 1]>>

\* "%.2f %s is %.2f %s"
FormatResult(temperature, fromScale, convertedTemp, toScale) ==
    Format2(temperature) \o <<" ">> \o fromScale \o <<" ", "i", "s", " ">>
    \o Format2(convertedTemp) \o <<" ">> \o toScale

\* The temperatures and the scale names of the checked requests.
RequestTemperatures == {0, 3200, 8000, 10000, 27315, 49167, 0 - 4000}

RequestScales ==
    {celsius, rankine,
     <<"C", "e", "l", "s", "i", "u", "s">>,
     <<"F", "A", "H", "R", "E", "N", "H", "E", "I", "T">>,
     <<"K", "e", "l", "v", "i", "n">>,
     <<"R", "É", "A", "U", "M", "U", "R">>,
     <<"r", "e", "a", "u", "m", "u", "r">>,
     <<"I", "n", "v", "a", "l", "i", "d", "S", "c", "a", "l", "e">>,
     <<>>}

\* GET /api/convert?temperature=..&fromScale=..&toScale=..
convert(temperature, fromScale, toScale) ==
    LET convertedTemp == convertTemperature(temperature * Fraction, fromScale, toScale)
    IN  /\ request' = [temperature |-> temperature, fromScale |-> fromScale,
                       toScale |-> toScale]
        /\ response' = IF convertedTemp.thrown
                       THEN [status |-> 400, body |-> convertedTemp.message]
                       ELSE [status |-> 200,
                             body |-> FormatResult(temperature * Fraction, fromScale,
                                                   convertedTemp.value, toScale)]
        /\ UNCHANGED <<engineVars, cacheVars, guestVars, authVars, removalVars, interceptorVars,
                     profileVars>>

InitConvert == EngineIdle /\ ClientStart

NextConvert ==
    \E temperature \in RequestTemperatures, fromScale \in RequestScales,
       toScale \in RequestScales :
        convert(temperature, fromScale, toScale)

SpecConvert == InitConvert /\ [][NextConvert]_vars

(***************************************************************************)
(* Properties of the converter.                                            *)
(***************************************************************************)
\* Two strings are equal but for the case of their letters.
EqualsIgnoreCase(a, b) ==
    /\ Len(a) = Len(b)
    /\ \A i \in 1..Len(a) :
          \/ a[i] = b[i]
          \/ \E k \in 1..Len(UpperCase) :
                {a[i], b[i]} = {UpperCase[k], LowerCase[k]}

Supported(scale) ==
    \E name \in {celsius, fahrenheit, kelvin, rankine, reaumur} :
        EqualsIgnoreCase(scale, name)

\* Conversions the tests state, in hundredths of a degree.
KnownConversions ==
    {<<0, celsius, fahrenheit, 3200>>, <<3200, fahrenheit, celsius, 0>>,
     <<0, celsius, kelvin, 27315>>, <<27315, kelvin, celsius, 0>>,
     <<0, celsius, rankine, 49167>>, <<49167, rankine, celsius, 0>>,
     <<10000, celsius, reaumur, 8000>>, <<8000, reaumur, celsius, 10000>>,
     <<3200, fahrenheit, kelvin, 27315>>, <<8000, reaumur, fahrenheit, 21200>>}

\* The body is "<temperature> <fromScale> is <converted> <toScale>" for some
\* converted temperature, which is the temperature itself when the two
\* scales are the same and the stated one for the conversions of the tests.
FormattedConversion(body) ==
    LET head == Format2(request.temperature * Fraction) \o <<" ">> \o request.fromScale
                \o <<" ", "i", "s", " ">>
        tail == <<" ">> \o request.toScale
        from == Len(head) + 1
        to == Len(body) - Len(tail)
    IN  /\ Len(body) > Len(head) + Len(tail)
        /\ SubSeq(body, 1, Len(head)) = head
        /\ SubSeq(body, to + 1, Len(body)) = tail
        /\ EqualsIgnoreCase(request.fromScale, request.toScale)
              => SubSeq(body, from, to) = Format2(request.temperature * Fraction)
        /\ \A known \in KnownConversions :
              /\ known[1] = request.temperature
              /\ EqualsIgnoreCase(request.fromScale, known[2])
              /\ EqualsIgnoreCase(request.toScale, known[3])
              => SubSeq(body, from, to) = Format2(known[4] * Fraction)

\* C21: convert answers 400 with body 'Unsupported scale: <scale>' naming
\* the offending scale whenever fromScale or toScale is not one of celsius,
\* fahrenheit, kelvin, rankine, réaumur (compared case-insensitively), and
\* answers 200 with the formatted conversion for every pair of supported
\* scales.
C21_UnsupportedScale ==
    request # NoRequest =>
        IF Supported(request.fromScale) /\ Supported(request.toScale)
        THEN /\ response.status = 200
             /\ FormattedConversion(response.body)
        ELSE /\ response.status = 400
             /\ \E scale \in {request.fromScale, request.toScale} :
                   /\ ~Supported(scale)
                   /\ response.body = UnsupportedScale(scale)

\* A request from a supported scale written in capitals to an unsupported
\* one has been answered 400.
C21_Witness ==
    /\ response.status = 400
    /\ Supported(request.fromScale)
    /\ request.fromScale # toLowerCase(request.fromScale)
    /\ ~Supported(request.toScale)
    /\ response.body = UnsupportedScale(request.toScale)

(***************************************************************************)
(* Termination of the Lloyd iteration.                                     *)
(***************************************************************************)
\* C22: the Lloyd iteration of clusterPatterns always terminates: it runs
\* at most maxIterations iterations, it stops with the first iteration whose
\* maximum centroid movement is below the tolerance or that reaches the
\* cap, not earlier and not later, and every run that iterates comes to its
\* end, also when empty clusters are reseeded in every iteration.
C22_Terminates ==
    /\ [](pc = "iterating" => km.iteration < km.maxIterations)
    /\ [][pc = "iterating" =>
             (pc' = "iterating" <=>
                 /\ ~Converged(km.centroids, km'.centroids, km.scaled)
                 /\ km'.iteration < km.maxIterations)]_vars
    /\ (pc = "iterating") ~> (pc = "labelling")

\* A run has stopped on the tolerance, below the cap, after more than one
\* iteration and at least as many reseedings of an empty cluster.
C22_Witness ==
    /\ pc = "labelling"
    /\ km.iteration >= 2
    /\ km.iteration < km.maxIterations
    /\ km.reseeds >= km.iteration

(***************************************************************************)
(* Properties of the cache under changes of the city.                      *)
(***************************************************************************)
\* C23 as stated: useCachedWeather never reports another city's data as
\* loaded: a hook with a cityName that is not loading and has no error holds
\* the response to a request for that cityName, in whatever order the
\* responses arrive.
C23_OwnCityData ==
    \A h \in HookIds :
        (/\ hooks[h].live
         /\ hooks[h].api = "getCurrentWeather"
         /\ hooks[h].cityName # Undefined
         /\ ~hooks[h].loading
         /\ hooks[h].error = NoError)
        => \E n \in 1..MaxRequests :
              hooks[h].data = Payload(Promise("getCurrentWeather", hooks[h].cityName, n))

(***************************************************************************)
(* The favourites of a signed-in user on the Dashboard.  Each card removes *)
(* its city through citiesAPI.removeFavorite and, when the call returns,   *)
(* calls the onRemove it was rendered with: handleRemoveFavorite of that   *)
(* render of the Dashboard, which filters the favourites of that render.   *)
(***************************************************************************)
\* What getFavorites returned for a user with n favourites.
FavoriteCities(n) ==
    [k \in 1..n |-> [id |-> k, name |-> CatalogueNames[k], is_primary |-> k = 1]]

\* Dashboard.handleRemoveFavorite(removedCity) of a render whose favourites
\* are favs: the list it hands to setFavorites.
handleRemoveFavorite(favs, removedCity) ==
    LET updatedFavorites == SelectSeq(favs, LAMBDA city : city.id # removedCity.id)
    IN  IF removedCity.is_primary /\ Len(updatedFavorites) > 0
        THEN [index \in 1..Len(updatedFavorites) |->
                 [updatedFavorites[index] EXCEPT !.is_primary = index = 1]]
        ELSE updatedFavorites

\* FavoriteCityCard.handleRemove of card i, up to its await: no second call
\* while the card is removing; the call keeps the onRemove of this render.
removeFavorite(i) ==
    /\ user # NoUser
    /\ i \in 1..Len(favorites)
    /\ \A r \in removals : r.city.id # favorites[i].id
    /\ removals' = removals \cup {[city |-> favorites[i], favorites |-> favorites]}
    /\ UNCHANGED <<engineVars, cacheVars, guestVars, authVars, converterVars, interceptorVars,
                   profileVars, removed>>

\* The call of a card returns: the server has deleted the favourite, and
\* onRemove(city) sets the favourites of the Dashboard.
removeFavoriteResolves(r) ==
    /\ r \in removals
    /\ dbFavorites' = dbFavorites \ {<<user.username, r.city.id>>}
    /\ favorites' = handleRemoveFavorite(r.favorites, r.city)
    /\ removals' = removals \ {r}
    /\ removed' = removed \cup {r.city.id}
    /\ UNCHANGED <<engineVars, cacheVars, converterVars, interceptorVars, profileVars,
                   localStorage, clock, insights,
                   expired, nextCity, catalogue, user, authError, authLoading, page,
                   authCall, result, migration, accounts>>

\* The call of a card fails: the alert, and setRemoving(false).
removeFavoriteRejects(r) ==
    /\ r \in removals
    /\ removals' = removals \ {r}
    /\ UNCHANGED <<engineVars, cacheVars, guestVars, authVars, converterVars, interceptorVars,
                   profileVars, removed>>

\* The Dashboard of the signed-in test user, its favourites loaded.
InitFavorites ==
    /\ EngineIdle
    /\ CacheStart
    /\ PageStart
    /\ localStorage = StoredSession(EmptyMap, LoginData(TestUser.username))
    /\ clock = Time(0, 0)
    /\ insights = <<>>
    /\ expired = "none"
    /\ nextCity = 0
    /\ catalogue = 0
    /\ user = TestUser
    /\ authError = NoError
    /\ authLoading = FALSE
    /\ page = "idle"
    /\ authCall = NoCall
    /\ result = NoResult
    /\ migration = <<>>
    /\ accounts = {TestUser.username}
    /\ \E n \in 1..MaxFavorites :
          /\ favorites = FavoriteCities(n)
          /\ dbFavorites = {<<TestUser.username, k>> : k \in 1..n}

NextFavorites ==
    \/ \E i \in 1..Len(favorites) : removeFavorite(i)
    \/ \E r \in removals : removeFavoriteResolves(r)
    \/ \E r \in removals : removeFavoriteRejects(r)

SpecFavorites == InitFavorites /\ [][NextFavorites]_vars

\* C24 as stated: after all pending favourite removals on the Dashboard
\* have completed successfully, the favourites shown contain none of the
\* removed cities, also when the removal of a second card started before
\* the removeFavorite call of the first had returned.
C24_RemovedStayRemoved ==
    removals = {} =>
        \A i \in 1..Len(favorites) : favorites[i].id \notin removed

(***************************************************************************)
(* A page that uses both hooks: the weather of a city and the forecast of  *)
(* a city, over the one inflightRequests Map.  A cityName is any string    *)
(* the cities table holds; one of the cities here is named like the        *)
(* in-flight key of the other's forecast.                                  *)
(***************************************************************************)
KindCities == {"Paris", "forecast_Paris"}

KindKeys == Keys \cup {InflightKey(api, city) : api \in Apis, city \in KindCities}

InitKinds ==
    /\ EngineIdle
    /\ GuestStart
    /\ AuthStart
    /\ PageStart
    /\ CacheWith(KindKeys)

NextKinds ==
    \/ \E h \in HookIds, cityName \in KindCities : useCachedWeather(h, cityName)
    \/ \E h \in HookIds, cityName \in KindCities : useCachedForecast(h, cityName)
    \/ \E h \in HookIds : unmount(h)
    \/ \E key \in KindKeys : resolve(key)
    \/ \E key \in KindKeys, err \in Rejections : reject(key, err)

SpecKinds == InitKinds /\ [][NextKinds]_vars

\* The payload is the response of a call of api for city.
ResponseOf(data, api, city) ==
    \E n \in 1..MaxRequests : data = Payload(Promise(api, city, n))

\* C25 as stated: cache and in-flight entries are keyed per city and per
\* kind of data, for all city names: a closure of a hook awaits a promise
\* its own api created for its own city, an entry of weatherCache under c
\* is a response of getCurrentWeather(c), an entry of forecastCache under c
\* is a response of getForecast(c), and the data a hook holds is a response
\* of its own api.
C25_KeyedPerKind ==
    /\ \A l \in loads :
          /\ l.promise.api = hooks[l.hook].api
          /\ l.promise.city = l.cityName
    /\ \A c \in DOMAIN weatherCache :
          ResponseOf(weatherCache[c].data, "getCurrentWeather", c)
    /\ \A c \in DOMAIN forecastCache :
          ResponseOf(forecastCache[c].data, "getForecast", c)
    /\ \A h \in HookIds :
          (hooks[h].live /\ hooks[h].data # Null) =>
              \E c \in KindCities \cup Cities : ResponseOf(hooks[h].data, hooks[h].api, c)

(***************************************************************************)
(* The guest-city utilities called directly (guestCities.js): any caller,  *)
(* any city, any id.  The storage is shared by the tabs of the browser, so *)
(* a card can hand over the id of a city another tab has removed.          *)
(***************************************************************************)
\* A second row of the cities table with the name and country of the first.
TwinCity == [SearchCity(1) EXCEPT !.id = CityId(3)]

\* The cities handed to addGuestCity: search results, and the first stored
\* city as its card has it.
AddedCities ==
    {SearchCity(1), SearchCity(2), TwinCity}
    \cup {[id |-> c.id, name |-> c.name, country |-> c.country] :
            c \in {getGuestCities(localStorage)[i] :
                      i \in 1..(IF getGuestCities(localStorage) = <<>> THEN 0 ELSE 1)}}

\* An id no stored city has.
UnknownId == GuestId(Time(0, 0), CityId(9))

\* The ids handed to removeGuestCity and setPrimaryGuestCity: those of the
\* first and the last stored city, and one that is not stored.
CalledIds ==
    {UnknownId} \cup {getGuestCities(localStorage)[i].id :
                        i \in {1, Len(getGuestCities(localStorage))}
                              \cap 1..Len(getGuestCities(localStorage))}

\* A call of a utility, a millisecond after the call before it.
Called(storage) ==
    /\ ticks < MaxCalls
    /\ ticks' = ticks + 1
    /\ clock' = Plus(clock, Millisecond)
    /\ localStorage' = storage
    /\ UNCHANGED <<engineVars, pageVars, authVars, weatherCache, forecastCache,
                   inflightRequests, requests, hooks, loads, now, favorites, insights,
                   expired, nextCity, catalogue>>

addGuestCityCalled(city) ==
    Called(addGuestCity(localStorage, city, Plus(clock, Millisecond)))

removeGuestCityCalled(cityId) ==
    Called(removeGuestCity(localStorage, cityId, Plus(clock, Millisecond)))

setPrimaryGuestCityCalled(cityId) ==
    Called(setPrimaryGuestCity(localStorage, cityId, Plus(clock, Millisecond)))

InitUtilities == EngineIdle /\ ClientStart

NextUtilities ==
    \/ \E city \in AddedCities : addGuestCityCalled(city)
    \/ \E cityId \in CalledIds : removeGuestCityCalled(cityId)
    \/ \E cityId \in CalledIds : setPrimaryGuestCityCalled(cityId)

SpecUtilities == InitUtilities /\ [][NextUtilities]_vars

\* The stored list as it is stored.
StoredCities(storage) ==
    IF GUEST_CITIES_KEY \in DOMAIN storage THEN JSONparse(storage[GUEST_CITIES_KEY])
    ELSE <<>>

\* C26 as stated: starting from empty guest storage, after any sequence of
\* addGuestCity, removeGuestCity and setPrimaryGuestCity calls with
\* arbitrary ids, exactly one stored city has is_primary = true whenever the
\* list is non-empty.
C26_OnePrimary ==
    LET cities == StoredCities(localStorage)
    IN  Len(cities) > 0 =>
            Cardinality({i \in 1..Len(cities) : cities[i].is_primary}) = 1

\* The city is stored already: same id, or same name and country.
AlreadyStored(cities, city) ==
    \E i \in 1..Len(cities) :
        \/ cities[i].id = city.id
        \/ (cities[i].name = city.name /\ cities[i].country = city.country)

\* C27: addGuestCity never creates duplicates and is idempotent: no two
\* stored cities have the same id or the same name and country, and adding
\* a city that is already stored leaves the stored list and its timestamp as
\* they are.
C27_NoDuplicates ==
    /\ [](LET cities == StoredCities(localStorage)
          IN  \A i \in 1..Len(cities), j \in 1..Len(cities) :
                  i < j =>
                      /\ cities[i].id # cities[j].id
                      /\ ~(cities[i].name = cities[j].name
                           /\ cities[i].country = cities[j].country))
    /\ [][\A city \in AddedCities :
             (addGuestCityCalled(city) /\ AlreadyStored(StoredCities(localStorage), city))
             => localStorage' = localStorage]_vars

\* Two cities are stored, and a call after the last save has saved nothing:
\* the city it added was stored already.
C27_Witness ==
    /\ Len(StoredCities(localStorage)) = 2
    /\ Later(clock, parseInt(localStorage[GUEST_CITIES_TIMESTAMP_KEY]))

(***************************************************************************)
(* The API client (axios instance) and its response interceptor.  A URL is *)
(* a sequence of characters.                                               *)
(***************************************************************************)
AuthUrl == <<"/", "a", "p", "i", "/", "a", "u", "t", "h">>
LoginUrl == AuthUrl \o <<"/", "l", "o", "g", "i", "n">>
RegisterUrl == AuthUrl \o <<"/", "r", "e", "g", "i", "s", "t", "e", "r">>
LogoutUrl == AuthUrl \o <<"/", "l", "o", "g", "o", "u", "t">>
MeUrl == AuthUrl \o <<"/", "m", "e">>
FavoritesUrl == <<"/", "a", "p", "i", "/", "c", "i", "t", "i", "e", "s", "/",
                  "f", "a", "v", "o", "r", "i", "t", "e", "s", "/", "l", "i", "s", "t">>

\* The URLs of the failed requests; the empty one is a config without url.
RequestUrls == {LoginUrl, RegisterUrl, LogoutUrl, MeUrl, FavoritesUrl, <<>>}

\* error.response?.status; 0 stands for an error without a response.
Statuses == {0, 401, 404, 500}

ResponseErrors == [status : Statuses, url : RequestUrls]

\* The routes of App.jsx.
Pathnames == {"/login", "/register", "/dashboard", "/ml-insights"}

\* String.prototype.includes
Includes(string, searchString) ==
    \E i \in 0..(Len(string) - Len(searchString)) :
        SubSeq(string, i + 1, i + Len(searchString)) = searchString

isAuthPageLoginOnly(pathname) == pathname = "/login"

isAuthPage(pathname) == pathname \in {"/login", "/register"}

isAuthEndpoint(url) == Includes(url, LoginUrl) \/ Includes(url, RegisterUrl)

\* The rejected handler of the response interceptor.
responseError(error) ==
    /\ failure' = [error |-> error, pathname |-> location]
    /\ IF error.status = 401 /\ ~isAuthPage(location) /\ ~isAuthEndpoint(error.url)
       THEN /\ localStorage' = MapDelete(MapDelete(localStorage, TOKEN_KEY), USER_KEY)
            /\ location' = "/login"
       ELSE UNCHANGED <<localStorage, location>>
    /\ rejection' = error
    /\ UNCHANGED <<engineVars, cacheVars, authVars, converterVars, removalVars, profileVars,
                   clock, favorites, insights, expired, nextCity, catalogue>>

\* The router shows another page.
navigate(pathname) ==
    /\ location # pathname
    /\ location' = pathname
    /\ UNCHANGED <<engineVars, cacheVars, guestVars, authVars, converterVars, removalVars,
                   profileVars, failure, rejection>>

\* A login on the login page stores the session and goes to the Dashboard.
signIn ==
    /\ location = "/login"
    /\ localStorage' = StoredSession(localStorage, LoginData(TestUser.username))
    /\ location' = "/dashboard"
    /\ UNCHANGED <<engineVars, cacheVars, authVars, converterVars, removalVars, profileVars,
                   failure, rejection, clock, favorites, insights, expired, nextCity,
                   catalogue>>

InitInterceptor == EngineIdle /\ ClientStart

NextInterceptor ==
    \/ \E error \in ResponseErrors : responseError(error)
    \/ \E pathname \in Pathnames : navigate(pathname)
    \/ signIn

SpecInterceptor == InitInterceptor /\ [][NextInterceptor]_vars

\* C28: the response interceptor removes 'token' and 'user' from
\* localStorage and redirects to /login only when the status is 401, the
\* page is neither /login nor /register and the request is neither the
\* login nor the register call; for every other failed response
\* localStorage and the location stay as they are; in all cases the error
\* is what the caller's promise is rejected with.
C28_Interceptor ==
    [][\A error \in ResponseErrors :
          responseError(error) =>
              /\ rejection' = error
              /\ IF /\ error.status = 401
                    /\ location \notin {"/login", "/register"}
                    /\ error.url \notin {LoginUrl, RegisterUrl}
                 THEN /\ DOMAIN localStorage' = DOMAIN localStorage \ {"token", "user"}
                      /\ \A key \in DOMAIN localStorage' : localStorage'[key] = localStorage[key]
                      /\ location' = "/login"
                 ELSE /\ localStorage' = localStorage
                      /\ location' = location]_vars

\* A 401 of the favourites request on the Dashboard has been handled: the
\* session is gone and the page is /login.
C28_Witness ==
    /\ failure.error = [status |-> 401, url |-> FavoritesUrl]
    /\ failure.pathname = "/dashboard"
    /\ rejection = failure.error
    /\ location = "/login"
    /\ "token" \notin DOMAIN localStorage
    /\ "user" \notin DOMAIN localStorage

(***************************************************************************)
(* ProfileEditModal: the form of the signed-in user's profile.             *)
(***************************************************************************)
\* The user prop of the tests, and what the fields are edited to.
ProfileUser == [username |-> "testuser", email |-> "test@example.com"]
ProfileUsernames == {"testuser", "newname"}
ProfileEmails == {"test@example.com", "new@example.com"}
CurrentPasswords == {"", "oldpass99"}
NewPasswords == {"", "short", "longpass12"}
ConfirmPasswords == {"", "short", "longpass12"}

FieldValues(name) ==
    CASE name = "username" -> ProfileUsernames
      [] name = "email" -> ProfileEmails
      [] name = "currentPassword" -> CurrentPasswords
      [] name = "newPassword" -> NewPasswords
      [] name = "confirmPassword" -> ConfirmPasswords

FieldNames == {"username", "email", "currentPassword", "newPassword", "confirmPassword"}

\* The details of a rejected updateProfile call; "" is a response without one.
Details == {"Username already taken", ""}

\* useState of the mounted component.
Mounted(userProp) ==
    [user |-> userProp,
     formData |-> [username |-> userProp.username, email |-> userProp.email,
                   currentPassword |-> "", newPassword |-> "", confirmPassword |-> ""],
     loading |-> FALSE, error |-> "", success |-> "", showPasswordFields |-> FALSE,
     open |-> TRUE]

MinPasswordLength == 8

passwordErrorNoLength(formData) ==
    IF formData.currentPassword = "" THEN "Current password is required to change password"
    ELSE IF formData.newPassword = "" THEN "New password is required"
    ELSE IF formData.newPassword # formData.confirmPassword THEN "New passwords do not match"
    ELSE ""

\* The validation of a password change; "" when it passes.
passwordError(formData) ==
    IF formData.currentPassword = "" THEN "Current password is required to change password"
    ELSE IF formData.newPassword = "" THEN "New password is required"
    ELSE IF Len(formData.newPassword) < MinPasswordLength
         THEN "New password must be at least 8 characters"
    ELSE IF formData.newPassword # formData.confirmPassword THEN "New passwords do not match"
    ELSE ""

\* const updateData = {}; ... the keys set and their values.
updateData(formData, userProp, showPasswordFields) ==
    LET keys == {k \in {"username"} : formData.username # userProp.username}
                \cup {k \in {"email"} : formData.email # userProp.email}
                \cup {k \in {"current_password", "new_password"} :
                         showPasswordFields /\ formData.newPassword # ""}
    IN [k \in keys |-> CASE k = "username" -> formData.username
                         [] k = "email" -> formData.email
                         [] k = "current_password" -> formData.currentPassword
                         [] k = "new_password" -> formData.newPassword]

\* What the server answers to a successful update.
updatedUser(userProp, data) ==
    [username |-> IF "username" \in DOMAIN data THEN data.username ELSE userProp.username,
     email |-> IF "email" \in DOMAIN data THEN data.email ELSE userProp.email]

handleChange(name, value) ==
    /\ modal.open
    /\ modal.formData[name] # value
    /\ modal' = [modal EXCEPT !.formData[name] = value, !.error = "", !.success = ""]
    /\ UNCHANGED <<engineVars, cacheVars, guestVars, authVars, converterVars, removalVars,
                   interceptorVars, profileCall>>

togglePasswordFields ==
    /\ modal.open
    /\ modal' = [modal EXCEPT !.showPasswordFields = ~modal.showPasswordFields]
    /\ UNCHANGED <<engineVars, cacheVars, guestVars, authVars, converterVars, removalVars,
                   interceptorVars, profileCall>>

\* The submit button is disabled while loading.
handleSubmit ==
    /\ modal.open
    /\ ~modal.loading
    /\ LET invalid == IF modal.showPasswordFields THEN passwordError(modal.formData) ELSE ""
           data == updateData(modal.formData, modal.user, modal.showPasswordFields)
       IN IF invalid # ""
          THEN /\ modal' = [modal EXCEPT !.error = invalid, !.success = ""]
               /\ UNCHANGED profileCall
          ELSE IF DOMAIN data = {}
          THEN /\ modal' = [modal EXCEPT !.error = "No changes to save", !.success = ""]
               /\ UNCHANGED profileCall
          ELSE /\ modal' = [modal EXCEPT !.error = "", !.success = "", !.loading = TRUE]
               /\ profileCall' = data
    /\ UNCHANGED <<engineVars, cacheVars, guestVars, authVars, converterVars, removalVars,
                   interceptorVars>>

\* The call returns: onSuccess hands the updated user to the parent, which
\* passes it back as the user prop.  A modal closed meanwhile keeps no state.
updateProfileResolves ==
    /\ profileCall # NoUpdate
    /\ modal' = IF modal.open
                THEN [modal EXCEPT !.success = "Profile updated successfully!",
                                   !.user = updatedUser(modal.user, profileCall),
                                   !.loading = FALSE]
                ELSE [modal EXCEPT !.user = updatedUser(modal.user, profileCall)]
    /\ profileCall' = NoUpdate
    /\ UNCHANGED <<engineVars, cacheVars, guestVars, authVars, converterVars, removalVars,
                   interceptorVars>>

updateProfileRejects(detail) ==
    /\ profileCall # NoUpdate
    /\ modal' = IF modal.open
                THEN [modal EXCEPT !.error = IF detail # "" THEN detail
                                             ELSE "Failed to update profile",
                                   !.loading = FALSE]
                ELSE modal
    /\ profileCall' = NoUpdate
    /\ UNCHANGED <<engineVars, cacheVars, guestVars, authVars, converterVars, removalVars,
                   interceptorVars>>

\* The close button, the overlay, or the timer after a success.
onClose ==
    /\ modal.open
    /\ modal' = [NoModal EXCEPT !.user = modal.user]
    /\ UNCHANGED <<engineVars, cacheVars, guestVars, authVars, converterVars, removalVars,
                   interceptorVars, profileCall>>

\* The parent shows the modal again once the earlier call has returned.
showProfileModal ==
    /\ ~modal.open
    /\ profileCall = NoUpdate
    /\ modal' = Mounted(modal.user)
    /\ UNCHANGED <<engineVars, cacheVars, guestVars, authVars, converterVars, removalVars,
                   interceptorVars, profileCall>>

InitProfile ==
    /\ EngineIdle
    /\ CacheStart /\ GuestStart /\ AuthStart
    /\ request = NoRequest /\ response = NoResponse
    /\ removals = {} /\ removed = {}
    /\ location = "/dashboard" /\ failure = NoFailure /\ rejection = NoResponseError
    /\ modal = Mounted(ProfileUser)
    /\ profileCall = NoUpdate

NextProfile ==
    \/ \E name \in FieldNames : \E value \in FieldValues(name) : handleChange(name, value)
    \/ togglePasswordFields
    \/ handleSubmit
    \/ updateProfileResolves
    \/ \E detail \in Details : updateProfileRejects(detail)
    \/ onClose
    \/ showProfileModal

SpecProfile == InitProfile /\ [][NextProfile]_vars

\* A valid password change is filled in.
PasswordChange ==
    /\ modal.showPasswordFields
    /\ modal.formData.currentPassword # ""
    /\ Len(modal.formData.newPassword) >= 8
    /\ modal.formData.newPassword = modal.formData.confirmPassword

\* C29: a step that starts an updateProfile call (loading turns true) sends
\* a username, an email or a password that changes; it sends
\* current_password and new_password only when the password section is
\* open, the current password is non-empty, and the new password has at
\* least 8 characters and equals its confirmation; a submit whose password
\* change is invalid, or that changes nothing, sets an error message and
\* makes no call.
C29_OnlyChanges ==
    [][/\ (~modal.loading /\ modal'.loading) =>
              /\ \/ "username" \in DOMAIN profileCall'
                    /\ profileCall'.username # modal.user.username
                 \/ "email" \in DOMAIN profileCall'
                    /\ profileCall'.email # modal.user.email
                 \/ "new_password" \in DOMAIN profileCall'
              /\ \A k \in DOMAIN profileCall' :
                    k \in {"username", "email"} => profileCall'[k] # modal.user[k]
              /\ DOMAIN profileCall' \cap {"current_password", "new_password"} # {} =>
                    /\ PasswordChange
                    /\ profileCall'.current_password = modal.formData.currentPassword
                    /\ profileCall'.new_password = modal.formData.newPassword
       /\ (/\ handleSubmit
           /\ \/ modal.showPasswordFields /\ ~PasswordChange
              \/ /\ ~modal.showPasswordFields
                 /\ modal.formData.username = modal.user.username
                 /\ modal.formData.email = modal.user.email) =>
              /\ modal'.error # ""
              /\ ~modal'.loading
              /\ profileCall' = profileCall]_vars

\* A call that changes the username and the password is pending.
C29_Witness ==
    /\ modal.loading
    /\ DOMAIN profileCall = {"username", "current_password", "new_password"}
    /\ profileCall.new_password = "longpass12"
    /\ PasswordChange

====
